---------------------------- MODULE Spec2Model ----------------------------
(***************************************************************************)
(* Customer-experience analytics for fintech apps: the sentiment and      *)
(* thematic pipeline (text cleaning, sentiment classification, keyword    *)
(* extraction, theme assignment) and the data-quality layer's concurrent  *)
(* translation, modelled from the Python sources.                         *)
(*                                                                         *)
(* Python strings are sequences of one-character strings, so that lower(), *)
(* strip(), slicing and substring tests are computed and not assumed.      *)
(* A Python value is a record [t |-> type name, v |-> payload]: for a str  *)
(* the payload is its characters, for any other type it is the characters  *)
(* of str(value).  Floats in [0,1] (scores) are integers in permille.      *)
(***************************************************************************)
EXTENDS Integers, Sequences, FiniteSets, TLC

VARIABLES
    \* models/sentiment_model.py
    sentiment_pipeline,  \* the module-level model handle: "loaded" or "None"
    model_calls,         \* the texts handed to the model by the running operation
    model_replies,       \* what the model did on each of these calls
    sa_call,             \* the last call of (safe_)analyze_sentiment and its outcome
    \* features/theme_clustering.py
    th_keywords,         \* the argument of assign_themes
    th_themes,           \* its return value
    th_done,             \* whether assign_themes has returned
    \* features/keyword_extraction.py
    kw_texts,            \* the argument texts of extract_keywords
    kw_top_k,            \* the argument top_k
    kw_result,           \* the outcome: the list of keyword lists, or the exception
    kw_done,             \* whether extract_keywords has finished
    \* pipeline/sentiment_thematic_pipeline.py
    pl_stage,            \* the stage run_pipeline executes next, "Done" or "Aborted"
    input_csv,           \* the file at input_csv: "missing", or its header and rows
    df,                  \* the DataFrame: column name -> column
    output_csv,          \* the file at output_csv: "absent", or the table written
    pl_error,            \* the exception that left run_pipeline, and its stage
    \* data/data_quality_utils.py: DataQualityUtils.translate_non_english_text
    tr_df,               \* self.df: column name -> column
    tr_before,           \* self.df as it was when the batch call began
    tr_pc,               \* "idle", "gathering", "returned" or "raised"
    tr_tasks,            \* the translate_to_english coroutines, one per row
    tr_finished,         \* the rows in the order in which their coroutines finished
    tr_error,            \* the exception that left the batch call
    \* data/data_quality_utils.py: filter_english_text, replace_emojis_with_text
    dq_call,             \* the method called on the held table, its arguments and
                         \* what the language detector answered for each row
    \* data/data_quality_utils.py: rename_columns, rename_and_prioritize_columns
    rn_columns,          \* self.df.columns in order: each column's name now and the
                         \* name it had when the table was constructed
    rn_before,           \* self.df.columns when the call began
    rn_call,             \* the method called last and its arguments
    rn_pc,               \* "idle", "returned" or "raised"
    \* analytics/analyzer.py: ReviewAnalyzer
    an_df,               \* self.df: the rows, each with its theme_list
    an_top_n,            \* the argument top_n of analyze_per_bank
    an_insights,         \* its result: bank -> top_drivers, top_pain_points
    an_summary,          \* the rows of generate_summary_df
    an_pc,               \* "constructed", "analyzed" or "summarised"
    \* the keywords and themes cells on their way from run_pipeline to their readers
    rt_list,             \* the list run_pipeline holds in the cell
    rt_cell,             \* the text of the cell in the output CSV
    rt_stored,           \* what format_json_field hands to the database
    rt_plotted,          \* what the visualizer holds after parsing the cell
    rt_pc,               \* "held", "written" or "read"
    \* db/seed_reviews.py: insert_reviews_from_csv
    db_csv,              \* the rows of the CSV file, and which inserts will fail
    db_banks,            \* bank_name_to_id: the names in the BANKS table
    db_i,                \* the number of CSV rows processed
    db_pending,          \* the review rows inserted and not committed
    db_committed,        \* the review rows committed
    db_commits,          \* the number of calls of conn.commit()
    db_pc,               \* "called", "rows", "returned" or "raised"
    \* data/collect_reviews.py: PlayStoreReviewScraper.fetch_reviews
    sc_source,           \* the review source: its pages and how it fails
    sc_max_reviews,      \* self.max_reviews
    sc_all_reviews,      \* all_reviews
    sc_requests,         \* the calls of reviews() that returned: arguments and page
    sc_errors,           \* the number of retries after errors, up to MaxErrors
    sc_pc,               \* "loop", "sleeping" or "returned"
    \* data/collect_reviews.py: ReviewPreprocessor.clean_reviews
    pp_df,               \* the argument df: the raw rows
    pp_bank_name,        \* the argument bank_name
    pp_result,           \* the outcome of the call: the table returned, or the exception
    pp_pc                \* "idle", "returned" or "raised"

sentVars == <<sentiment_pipeline, model_calls, model_replies, sa_call>>

themeVars == <<th_keywords, th_themes, th_done>>

kwVars == <<kw_texts, kw_top_k, kw_result, kw_done>>

plVars == <<pl_stage, input_csv, df, output_csv, pl_error>>

trVars == <<tr_df, tr_before, tr_pc, tr_tasks, tr_finished, tr_error>>

dqVars == <<dq_call>>

rnVars == <<rn_columns, rn_before, rn_call, rn_pc>>

anVars == <<an_df, an_top_n, an_insights, an_summary, an_pc>>

rtVars == <<rt_list, rt_cell, rt_stored, rt_plotted, rt_pc>>

dbVars == <<db_csv, db_banks, db_i, db_pending, db_committed, db_commits, db_pc>>

scVars == <<sc_source, sc_max_reviews, sc_all_reviews, sc_requests, sc_errors, sc_pc>>

ppVars == <<pp_df, pp_bank_name, pp_result, pp_pc>>

\* The components added after the pipeline and the data-quality text methods.
lateVars == <<rnVars, anVars, rtVars, dbVars, scVars, ppVars>>

earlyVars == <<sentVars, themeVars, kwVars, plVars, trVars, dqVars>>

vars == <<earlyVars, lateVars>>

(***************************************************************************)
(* Characters and the str methods the sources use.                         *)
(***************************************************************************)
LowerChars == <<"a", "b", "c", "d", "e", "f", "g", "h", "i", "j", "k", "l", "m",
                "n", "o", "p", "q", "r", "s", "t", "u", "v", "w", "x", "y", "z">>

UpperChars == <<"A", "B", "C", "D", "E", "F", "G", "H", "I", "J", "K", "L", "M",
                "N", "O", "P", "Q", "R", "S", "T", "U", "V", "W", "X", "Y", "Z">>

DigitChars == <<"0", "1", "2", "3", "4", "5", "6", "7", "8", "9">>

\* str.isspace() on the characters the model uses.
Whitespace == {" ", "\t", "\n"}

Range(f) == {f[i] : i \in DOMAIN f}

IndexOf(seq, c) == CHOOSE i \in DOMAIN seq : seq[i] = c

SetMin(S) == CHOOSE x \in S : \A y \in S : x <= y

\* ord(c): the code point, for the ordering of strings.
Ord(c) ==
    IF c \in Range(LowerChars) THEN 96 + IndexOf(LowerChars, c)
    ELSE IF c \in Range(UpperChars) THEN 64 + IndexOf(UpperChars, c)
    ELSE IF c \in Range(DigitChars) THEN 47 + IndexOf(DigitChars, c)
    ELSE IF c = " " THEN 32
    ELSE IF c = "\n" THEN 10
    ELSE IF c = "\t" THEN 9
    ELSE IF c = "!" THEN 33
    ELSE IF c = "$" THEN 36
    ELSE IF c = "'" THEN 39
    ELSE IF c = "," THEN 44
    ELSE IF c = "." THEN 46
    ELSE IF c = "[" THEN 91
    ELSE IF c = "]" THEN 93
    ELSE IF c = "_" THEN 95
    ELSE 63

\* str.lower(), one character.
LowerChar(c) ==
    IF c \in Range(UpperChars) THEN LowerChars[IndexOf(UpperChars, c)] ELSE c

\* str.lower().
lower(s) == [i \in 1..Len(s) |-> LowerChar(s[i])]

\* str.strip(): leading and trailing whitespace removed.
strip(s) ==
    IF \A i \in 1..Len(s) : s[i] \in Whitespace
    THEN <<>>
    ELSE LET first == CHOOSE i \in 1..Len(s) :
                          /\ s[i] \notin Whitespace
                          /\ \A j \in 1..(i - 1) : s[j] \in Whitespace
             last == CHOOSE i \in 1..Len(s) :
                          /\ s[i] \notin Whitespace
                          /\ \A j \in (i + 1)..Len(s) : s[j] \in Whitespace
         IN  SubSeq(s, first, last)

\* s[:n] for n >= 0.
Prefix(s, n) == SubSeq(s, 1, IF Len(s) < n THEN Len(s) ELSE n)

\* `key in s` for strings: key occurs as a contiguous substring of s.
Contains(s, key) ==
    \E i \in 1..(Len(s) - Len(key) + 1) : SubSeq(s, i, i + Len(key) - 1) = key

\* c * n for a one-character string c.
Rep(c, n) == [i \in 1..n |-> c]

(***************************************************************************)
(* Python values.                                                          *)
(***************************************************************************)
Str(chars) == [t |-> "str", v |-> chars]

PyNone == [t |-> "NoneType", v |-> <<"N", "o", "n", "e">>]

PyInt12345 == [t |-> "int", v |-> <<"1", "2", "3", "4", "5">>]

\* isinstance(x, str)
IsStr(x) == x.t = "str"

(***************************************************************************)
(* models/sentiment_model.py                                               *)
(***************************************************************************)
\* text[:512]
MaxInputLen == 512

POSITIVE == <<"P", "O", "S", "I", "T", "I", "V", "E">>
NEGATIVE == <<"N", "E", "G", "A", "T", "I", "V", "E">>
positive == <<"p", "o", "s", "i", "t", "i", "v", "e">>
negative == <<"n", "e", "g", "a", "t", "i", "v", "e">>
neutral == <<"n", "e", "u", "t", "r", "a", "l">>

\* Scores the model may report, in permille of 1.0.
ModelScores == {0, 627, 1000}

\* What one call of the pre-trained model does: it returns [{"label", "score"}]
\* with one of its two labels, or it raises.
ModelOutcomes ==
    [kind : {"return"}, label : {POSITIVE, NEGATIVE}, score : ModelScores, exc : {"-"}]
        \cup
    [kind : {"raise"}, label : {<<>>}, score : {0}, exc : {"IndexError"}]

\* An outcome of a call: the exception raised or the value returned, with the
\* model calls made on the way and the model's replies to them.
Raise(exc, calls, replies) ==
    [kind |-> "raise", exc |-> exc, value |-> <<>>, calls |-> calls,
     replies |-> replies]

Return(value, calls, replies) ==
    [kind |-> "return", exc |-> "-", value |-> value, calls |-> calls,
     replies |-> replies]

\* The model call with the label returned as the model spells it (no lower()).
ClassifyWith_label_as_given(truncated_text, oracle) ==
    IF oracle.kind = "raise"
    THEN Raise(oracle.exc, <<truncated_text>>, <<oracle>>)
    ELSE Return(<<oracle.label, oracle.score>>, <<truncated_text>>, <<oracle>>)

\* The model call sentiment_pipeline(truncated_text)[0] and what follows it.
ClassifyWith(truncated_text, oracle) ==
    IF oracle.kind = "raise"
    THEN Raise(oracle.exc, <<truncated_text>>, <<oracle>>)
    ELSE Return(<<lower(oracle.label), oracle.score>>, <<truncated_text>>, <<oracle>>)

\* analyze_sentiment with the validation `not text` in place of `not text.strip()`.
analyze_sentiment_no_strip(text, oracle) ==
    IF ~IsStr(text) \/ text.v = <<>>
    THEN Raise("ValueError", <<>>, <<>>)
    ELSE IF sentiment_pipeline = "None"
    THEN Raise("RuntimeError", <<>>, <<>>)
    ELSE ClassifyWith(Prefix(text.v, MaxInputLen), oracle)

\* analyze_sentiment without the `sentiment_pipeline is None` test: calling None
\* raises TypeError.
analyze_sentiment_no_none_check(text, oracle) ==
    IF ~IsStr(text) \/ strip(text.v) = <<>>
    THEN Raise("ValueError", <<>>, <<>>)
    ELSE IF sentiment_pipeline = "None"
    THEN Raise("TypeError", <<>>, <<>>)
    ELSE ClassifyWith(Prefix(text.v, MaxInputLen), oracle)

\* analyze_sentiment handing the whole text to the model.
analyze_sentiment_no_truncation(text, oracle) ==
    IF ~IsStr(text) \/ strip(text.v) = <<>>
    THEN Raise("ValueError", <<>>, <<>>)
    ELSE IF sentiment_pipeline = "None"
    THEN Raise("RuntimeError", <<>>, <<>>)
    ELSE ClassifyWith(text.v, oracle)

\* analyze_sentiment(text); oracle is what the model does if it is called.
analyze_sentiment(text, oracle) ==
    IF ~IsStr(text) \/ strip(text.v) = <<>>
    THEN Raise("ValueError", <<>>, <<>>)
    ELSE IF sentiment_pipeline = "None"
    THEN Raise("RuntimeError", <<>>, <<>>)
    ELSE LET truncated_text == Prefix(text.v, MaxInputLen)
         IN  ClassifyWith(truncated_text, oracle)

\* safe_analyze_sentiment with `except ValueError` in place of `except Exception`.
safe_analyze_sentiment_except_value_error(text, oracle) ==
    LET attempt ==
            IF text = PyNone \/ ~IsStr(text) \/ strip(text.v) = <<>>
            THEN Raise("ValueError", <<>>, <<>>)
            ELSE analyze_sentiment(text, oracle)
    IN  IF attempt.kind = "raise" /\ attempt.exc = "ValueError"
        THEN Return(<<neutral, 0>>, attempt.calls, attempt.replies)
        ELSE attempt

\* safe_analyze_sentiment(text): every Exception becomes ("neutral", 0.0).
safe_analyze_sentiment(text, oracle) ==
    LET attempt ==
            IF text = PyNone \/ ~IsStr(text) \/ strip(text.v) = <<>>
            THEN Raise("ValueError", <<>>, <<>>)
            ELSE analyze_sentiment(text, oracle)
    IN  IF attempt.kind = "raise"
        THEN Return(<<neutral, 0>>, attempt.calls, attempt.replies)
        ELSE attempt

\* How far beyond the model's input limit the long texts of the model reach.
MaxOverrun == 2

Tails == UNION {[1..n -> {"b"}] : n \in 0..MaxOverrun}

LongTexts ==
    {Rep(c, n) \o tail : c \in {"a", " "}, n \in {MaxInputLen - 1, MaxInputLen},
                         tail \in Tails}

ShortTexts ==
    { <<>>, <<" ", " ", " ">>, <<" ", "\n", "\t">>,
      <<"g", "o", "o", "d">>, <<" ", "b", "a", "d", " ", "a", "p", "p", " ">> }

SentimentInputs ==
    {PyNone, PyInt12345} \cup {Str(s) : s \in ShortTexts \cup LongTexts}

NoCall == [fn |-> "-", text |-> PyNone, oracle |-> "-", kind |-> "-",
           exc |-> "-", value |-> <<>>]

CallRecord(fn, text, oracle, r) ==
    [fn |-> fn, text |-> text, oracle |-> oracle, kind |-> r.kind,
     exc |-> r.exc, value |-> r.value]

\* The state after the module is imported: the model loaded, or loading failed
\* and the except branch set sentiment_pipeline = None.
SentInit ==
    /\ sentiment_pipeline \in {"loaded", "None"}
    /\ model_calls = <<>>
    /\ model_replies = <<>>
    /\ sa_call = NoCall

SentIdle ==
    /\ sentiment_pipeline = "loaded"
    /\ model_calls = <<>>
    /\ model_replies = <<>>
    /\ sa_call = NoCall

CallAnalyzeSentiment ==
    /\ sa_call = NoCall
    /\ \E text \in SentimentInputs, oracle \in ModelOutcomes :
        LET r == analyze_sentiment(text, oracle)
        IN  /\ sa_call' = CallRecord("analyze_sentiment", text, oracle, r)
               /\ model_calls' = r.calls
               /\ model_replies' = r.replies
               /\ UNCHANGED <<sentiment_pipeline, themeVars, kwVars, plVars, trVars, dqVars, lateVars>>

CallSafeAnalyzeSentiment ==
    /\ sa_call = NoCall
    /\ \E text \in SentimentInputs, oracle \in ModelOutcomes :
        LET r == safe_analyze_sentiment(text, oracle)
        IN  /\ sa_call' = CallRecord("safe_analyze_sentiment", text, oracle, r)
               /\ model_calls' = r.calls
               /\ model_replies' = r.replies
               /\ UNCHANGED <<sentiment_pipeline, themeVars, kwVars, plVars, trVars, dqVars, lateVars>>

\* The caller has consumed the outcome; the next call may follow.
SentCallDone ==
    /\ sa_call # NoCall
    /\ sa_call' = NoCall
    /\ model_calls' = <<>>
    /\ model_replies' = <<>>
    /\ UNCHANGED <<sentiment_pipeline, themeVars, kwVars, plVars, trVars, dqVars, lateVars>>

SentNext == CallAnalyzeSentiment \/ CallSafeAnalyzeSentiment \/ SentCallDone

(***************************************************************************)
(* Properties of the sentiment classifier.                                 *)
(***************************************************************************)
\* A string with at least one character that is not whitespace.
ValidText(text) == IsStr(text) /\ \E i \in 1..Len(text.v) : text.v[i] \notin Whitespace

AnalyzeCalled == sa_call.fn = "analyze_sentiment"

SafeCalled == sa_call.fn = "safe_analyze_sentiment"

\* C5: safe_analyze_sentiment never raises; for None, a non-string, an empty or
\* whitespace-only input, and whenever analyze_sentiment fails (model not
\* loaded, model raises), it returns exactly ("neutral", 0.0); otherwise it
\* returns analyze_sentiment's result unchanged.
C5_SafeNeverRaises ==
    SafeCalled =>
        LET inner == analyze_sentiment(sa_call.text, sa_call.oracle)
        IN  /\ sa_call.kind = "return"
            /\ IF \/ ~ValidText(sa_call.text)
                  \/ sentiment_pipeline = "None"
                  \/ sa_call.oracle.kind = "raise"
                  \/ inner.kind = "raise"
               THEN sa_call.value = <<neutral, 0>>
               ELSE /\ sa_call.value = inner.value
                    /\ sa_call.value = <<lower(sa_call.oracle.label), sa_call.oracle.score>>

\* C5's case: a valid text for which the model raised came back as neutral.
C5_Witness ==
    /\ SafeCalled
    /\ ValidText(sa_call.text)
    /\ sentiment_pipeline = "loaded"
    /\ sa_call.oracle.kind = "raise"
    /\ Len(model_calls) = 1
    /\ sa_call.kind = "return"
    /\ sa_call.value = <<neutral, 0>>

\* C6: analyze_sentiment rejects every input that is not a string, or that is
\* empty or whitespace-only, with ValueError, and without invoking the model.
C6_InvalidInputRejected ==
    (AnalyzeCalled /\ ~ValidText(sa_call.text)) =>
        /\ sa_call.kind = "raise"
        /\ sa_call.exc = "ValueError"
        /\ model_calls = <<>>

\* C6's case: a whitespace-only string was rejected while the model was loaded.
C6_Witness ==
    /\ AnalyzeCalled
    /\ sa_call.text = Str(<<" ", "\n", "\t">>)
    /\ sentiment_pipeline = "loaded"
    /\ sa_call.exc = "ValueError"

\* C7 as stated: when model initialization has failed, every call of
\* analyze_sentiment, whatever its input, reports RuntimeError and attempts no
\* model call.
C7_Original ==
    (AnalyzeCalled /\ sentiment_pipeline = "None") =>
        /\ sa_call.kind = "raise"
        /\ sa_call.exc = "RuntimeError"
        /\ model_calls = <<>>

\* C7 amended: when model initialization has failed, every call of
\* analyze_sentiment whose input passes validation reports RuntimeError, a call
\* whose input fails validation reports ValueError, and no call attempts a
\* model call.
C7_ModelUnavailable ==
    (AnalyzeCalled /\ sentiment_pipeline = "None") =>
        /\ sa_call.kind = "raise"
        /\ model_calls = <<>>
        /\ ValidText(sa_call.text) => sa_call.exc = "RuntimeError"
        /\ ~ValidText(sa_call.text) => sa_call.exc = "ValueError"

\* C7's case: a valid text met the failed model.
C7_Witness ==
    /\ AnalyzeCalled
    /\ sentiment_pipeline = "None"
    /\ ValidText(sa_call.text)
    /\ sa_call.exc = "RuntimeError"

\* C8: for every valid text (the model being loaded), analyze_sentiment makes
\* exactly one model call, and its argument is the first 512 characters of the
\* text, the whole text when it is shorter.
C8_TruncatedTo512 ==
    (AnalyzeCalled /\ ValidText(sa_call.text) /\ sentiment_pipeline = "loaded") =>
        /\ Len(model_calls) = 1
        /\ LET given == model_calls[1]
               text == sa_call.text.v
           IN  /\ Len(given) = (IF Len(text) > 512 THEN 512 ELSE Len(text))
               /\ \A i \in 1..Len(given) : given[i] = text[i]

\* C8's case: a text longer than 512 characters reached the model cut to 512.
C8_Witness ==
    /\ AnalyzeCalled
    /\ Len(sa_call.text.v) > 512
    /\ Len(model_calls) = 1
    /\ Len(model_calls[1]) = 512
    /\ sa_call.kind = "return"

\* C15: analyze_sentiment returns only the labels positive and negative, with
\* a score in [0, 1]; a result with the label neutral comes only from the
\* fallback of safe_analyze_sentiment, that is only when the input is invalid
\* or the classification failed (model not loaded, model raised), and its
\* score is 0.0.
C15_NeutralOnlyAsFallback ==
    /\ (AnalyzeCalled /\ sa_call.kind = "return") =>
           /\ sa_call.value[1] \in {positive, negative}
           /\ sa_call.value[2] >= 0
           /\ sa_call.value[2] <= 1000
    /\ (sa_call.kind = "return" /\ sa_call.value[1] = neutral) =>
           /\ SafeCalled
           /\ sa_call.value[2] = 0
           /\ \/ ~ValidText(sa_call.text)
              \/ sentiment_pipeline = "None"
              \/ sa_call.oracle.kind = "raise"
    /\ (SafeCalled /\ sa_call.value[1] # neutral) =>
           /\ sa_call.value[1] \in {positive, negative}
           /\ ValidText(sa_call.text)
           /\ Len(model_calls) = 1

\* C15's case: the fallback answered for an input that is not a string while
\* the model was loaded.
C15_Witness ==
    /\ SafeCalled
    /\ sa_call.text = PyInt12345
    /\ sentiment_pipeline = "loaded"
    /\ sa_call.value = <<neutral, 0>>
    /\ model_calls = <<>>

(***************************************************************************)
(* Ordering of strings (sorted() on str compares code points).             *)
(***************************************************************************)
StrLess(a, b) ==
    \E i \in 1..(Len(a) + 1) :
        /\ i <= Len(b)
        /\ \A j \in 1..(i - 1) : a[j] = b[j]
        /\ (i = Len(a) + 1 \/ Ord(a[i]) < Ord(b[i]))

\* sorted(S) for a set S of strings.
RECURSIVE SortStrings(_)
SortStrings(S) ==
    IF S = {} THEN <<>>
    ELSE LET m == CHOOSE x \in S : \A y \in S \ {x} : StrLess(x, y)
         IN  <<m>> \o SortStrings(S \ {m})

(***************************************************************************)
(* features/theme_clustering.py                                            *)
(***************************************************************************)
AccountAccessIssues ==
    <<"A", "c", "c", "o", "u", "n", "t", " ", "A", "c", "c", "e", "s", "s", " ",
      "I", "s", "s", "u", "e", "s">>
Reliability == <<"R", "e", "l", "i", "a", "b", "i", "l", "i", "t", "y">>
TransactionPerformance ==
    <<"T", "r", "a", "n", "s", "a", "c", "t", "i", "o", "n", " ",
      "P", "e", "r", "f", "o", "r", "m", "a", "n", "c", "e">>
CustomerSupport ==
    <<"C", "u", "s", "t", "o", "m", "e", "r", " ", "S", "u", "p", "p", "o", "r", "t">>
UserExperience ==
    <<"U", "s", "e", "r", " ", "E", "x", "p", "e", "r", "i", "e", "n", "c", "e">>
FeatureRequests ==
    <<"F", "e", "a", "t", "u", "r", "e", " ", "R", "e", "q", "u", "e", "s", "t", "s">>
Miscellaneous ==
    <<"M", "i", "s", "c", "e", "l", "l", "a", "n", "e", "o", "u", "s">>

\* The dict keyword_theme_map, as (key, theme) pairs in insertion order.
keyword_theme_map ==
    << <<<<"l", "o", "g", "i", "n">>, AccountAccessIssues>>,
       <<<<"p", "a", "s", "s", "w", "o", "r", "d">>, AccountAccessIssues>>,
       <<<<"c", "r", "a", "s", "h">>, Reliability>>,
       <<<<"s", "l", "o", "w">>, TransactionPerformance>>,
       <<<<"s", "u", "p", "p", "o", "r", "t">>, CustomerSupport>>,
       <<<<"i", "n", "t", "e", "r", "f", "a", "c", "e">>, UserExperience>>,
       <<<<"d", "e", "s", "i", "g", "n">>, UserExperience>>,
       <<<<"f", "e", "a", "t", "u", "r", "e">>, FeatureRequests>>,
       <<<<"u", "p", "d", "a", "t", "e">>, FeatureRequests>> >>

\* assign_themes matching `key in kw` on the keyword as given (no lower()).
assign_themes_case_sensitive(keywords) ==
    LET assigned_themes ==
            {keyword_theme_map[m][2] : m \in
                {n \in DOMAIN keyword_theme_map :
                    \E k \in DOMAIN keywords :
                        Contains(keywords[k], keyword_theme_map[n][1])}}
    IN  IF assigned_themes = {} THEN <<Miscellaneous>>
        ELSE SortStrings(assigned_themes)

\* assign_themes returning the themes in the order of the table, not sorted.
assign_themes_unsorted(keywords) ==
    LET Matches(n) ==
            \E k \in DOMAIN keywords :
                Contains(lower(keywords[k]), keyword_theme_map[n][1])
        First(n) ==
            /\ Matches(n)
            /\ \A m \in 1..(n - 1) :
                   Matches(m) => keyword_theme_map[m][2] # keyword_theme_map[n][2]
        entries == SelectSeq([n \in DOMAIN keyword_theme_map |-> n], First)
    IN  IF entries = <<>> THEN <<Miscellaneous>>
        ELSE [k \in 1..Len(entries) |-> keyword_theme_map[entries[k]][2]]

\* assign_themes without the fallback of lines 41-42.
assign_themes_no_fallback(keywords) ==
    LET assigned_themes ==
            {keyword_theme_map[m][2] : m \in
                {n \in DOMAIN keyword_theme_map :
                    \E k \in DOMAIN keywords :
                        LET kw_lower == lower(keywords[k])
                        IN  Contains(kw_lower, keyword_theme_map[n][1])}}
    IN  SortStrings(assigned_themes)

\* assign_themes(keywords): the themes whose key occurs in a lower-cased
\* keyword, sorted; ["Miscellaneous"] when there is none.
assign_themes(keywords) ==
    LET assigned_themes ==
            {keyword_theme_map[m][2] : m \in
                {n \in DOMAIN keyword_theme_map :
                    \E k \in DOMAIN keywords :
                        LET kw_lower == lower(keywords[k])
                        IN  Contains(kw_lower, keyword_theme_map[n][1])}}
    IN  IF assigned_themes = {} THEN <<Miscellaneous>>
        ELSE SortStrings(assigned_themes)

\* The longest keyword list given to assign_themes.
MaxKeywords == 3

KeywordSamples ==
    { <<"l", "o", "g", "i", "n", " ", "i", "s", "s", "u", "e">>,
      <<"L", "o", "g", "i", "n">>,
      <<"P", "A", "S", "S", "W", "O", "R", "D", " ", "r", "e", "s", "e", "t">>,
      <<"a", "p", "p", " ", "c", "r", "a", "s", "h", "i", "n", "g">>,
      <<"p", "o", "o", "r", " ", "i", "n", "t", "e", "r", "f", "a", "c", "e">>,
      <<"f", "e", "a", "t", "u", "r", "e", " ", "u", "p", "d", "a", "t", "e">>,
      <<"s", "l", "o", "w", " ", "s", "u", "p", "p", "o", "r", "t">>,
      <<"r", "a", "n", "d", "o", "m", "w", "o", "r", "d">>,
      <<"l", "o", "g", " ", "i", "n">>,
      <<>> }

KeywordLists == UNION {[1..n -> KeywordSamples] : n \in 0..MaxKeywords}

ThemesInit ==
    /\ th_keywords \in KeywordLists
    /\ th_themes = <<>>
    /\ th_done = FALSE

ThemesIdle ==
    /\ th_keywords = <<>>
    /\ th_themes = <<>>
    /\ th_done = FALSE

CallAssignThemes ==
    /\ ~th_done
    /\ th_themes' = assign_themes(th_keywords)
    /\ th_done' = TRUE
    /\ UNCHANGED <<th_keywords, sentVars, kwVars, plVars, trVars, dqVars, lateVars>>

ThemesNext == CallAssignThemes

\* The nine substrings of the taxonomy.
TaxonomySubstrings ==
    { <<"l", "o", "g", "i", "n">>, <<"p", "a", "s", "s", "w", "o", "r", "d">>,
      <<"c", "r", "a", "s", "h">>, <<"s", "l", "o", "w">>,
      <<"s", "u", "p", "p", "o", "r", "t">>,
      <<"i", "n", "t", "e", "r", "f", "a", "c", "e">>,
      <<"d", "e", "s", "i", "g", "n">>, <<"f", "e", "a", "t", "u", "r", "e">>,
      <<"u", "p", "d", "a", "t", "e">> }

\* kw contains key at some offset, letters compared without regard to case.
ContainsIgnoringCase(kw, key) ==
    \E off \in 0..(Len(kw) - Len(key)) :
        \A j \in 1..Len(key) : LowerChar(kw[off + j]) = LowerChar(key[j])

HasTaxonomyMatch(K) ==
    \E k \in DOMAIN K : \E key \in TaxonomySubstrings : ContainsIgnoringCase(K[k], key)

\* C3: assign_themes(K) is non-empty; it is exactly ["Miscellaneous"] if and
\* only if no element of K contains a taxonomy substring, case-insensitively;
\* "Miscellaneous" never appears together with a taxonomy theme.
C3_MiscellaneousIffNoMatch ==
    th_done =>
        /\ Len(th_themes) >= 1
        /\ (th_themes = <<Miscellaneous>>) <=> ~HasTaxonomyMatch(th_keywords)
        /\ (\E i \in DOMAIN th_themes : th_themes[i] = Miscellaneous)
               => Len(th_themes) = 1

\* C3's case: an upper-case keyword matched beside a keyword without a match.
C3_Witness ==
    /\ th_done
    /\ th_keywords = << <<"r", "a", "n", "d", "o", "m", "w", "o", "r", "d">>,
                        <<"L", "o", "g", "i", "n">> >>
    /\ th_themes = <<AccountAccessIssues>>

\* Some keyword of K contains, case-insensitively, a table entry mapped to T.
MatchesTheme(K, T) ==
    \E k \in DOMAIN K : \E n \in DOMAIN keyword_theme_map :
        /\ keyword_theme_map[n][2] = T
        /\ ContainsIgnoringCase(K[k], keyword_theme_map[n][1])

\* The themes of the table.
TaxonomyThemes == {keyword_theme_map[n][2] : n \in DOMAIN keyword_theme_map}

\* C16: assign_themes returns exactly the themes T of the table for which some
\* keyword contains, case-insensitively, an entry mapped to T (and nothing
\* else, but for the lone Miscellaneous of C3); each theme appears once,
\* however many keywords or entries match it; a keyword that matches entries
\* of two themes yields both; the output is in ascending alphabetical order.
C16_ExactlyMatchedThemesSorted ==
    th_done =>
        /\ \A T \in TaxonomyThemes :
               (\E i \in DOMAIN th_themes : th_themes[i] = T)
                   <=> MatchesTheme(th_keywords, T)
        /\ \A i \in DOMAIN th_themes :
               th_themes[i] \in TaxonomyThemes \/ th_themes = <<Miscellaneous>>
        /\ \A i, j \in DOMAIN th_themes :
               i < j => /\ th_themes[i] # th_themes[j]
                        /\ StrLess(lower(th_themes[i]), lower(th_themes[j]))

\* C16's case: one keyword matches entries of two themes, two keywords in
\* different case match the same theme, and the three themes come out sorted.
C16_Witness ==
    /\ th_done
    /\ th_keywords = << <<"s", "l", "o", "w", " ", "s", "u", "p", "p", "o", "r", "t">>,
                        <<"L", "o", "g", "i", "n">>,
                        <<"l", "o", "g", "i", "n", " ", "i", "s", "s", "u", "e">> >>
    /\ th_themes = <<AccountAccessIssues, CustomerSupport, TransactionPerformance>>

(***************************************************************************)
(* features/keyword_extraction.py                                          *)
(*                                                                         *)
(* TfidfVectorizer(ngram_range=(1, 2), max_features=1000) with its         *)
(* defaults: lowercase, token pattern \b\w\w+\b, no stop words, raw term   *)
(* counts, smooth idf = ln((1 + n) / (1 + df)) + 1, l2 row norm.           *)
(***************************************************************************)
\* \w on the characters of the model.
IsWordChar(c) ==
    c \in Range(LowerChars) \cup Range(UpperChars) \cup Range(DigitChars) \cup {"_"}

\* The maximal runs of word characters of s from position i on; cur is the run
\* being read.
RECURSIVE WordRuns(_, _, _)
WordRuns(s, i, cur) ==
    IF i > Len(s) THEN (IF cur = <<>> THEN <<>> ELSE <<cur>>)
    ELSE IF IsWordChar(s[i]) THEN WordRuns(s, i + 1, Append(cur, s[i]))
    ELSE (IF cur = <<>> THEN <<>> ELSE <<cur>>) \o WordRuns(s, i + 1, <<>>)

AtLeastTwoChars(token) == Len(token) >= 2

\* The analyzer's tokens: re.findall(r"\b\w\w+\b", doc.lower()).
Tokenize(doc) == SelectSeq(WordRuns(lower(doc), 1, <<>>), AtLeastTwoChars)

\* ngram_range=(1, 2): the tokens, then the pairs of neighbouring tokens.
Ngrams(tokens) ==
    tokens \o [i \in 1..(Len(tokens) - 1) |-> tokens[i] \o <<" ">> \o tokens[i + 1]]

\* The number of occurrences of term among the n-grams of one document.
TermCount(term, grams) == Cardinality({i \in DOMAIN grams : grams[i] = term})

\* max_features
MaxFeatures == 1000

\* The subsets of S with k elements.
RECURSIVE KSubsets(_, _)
KSubsets(S, k) ==
    IF k = 0 THEN {{}}
    ELSE IF k > Cardinality(S) THEN {}
    ELSE IF k = Cardinality(S) THEN {S}
    ELSE LET x == CHOOSE y \in S : TRUE
         IN  KSubsets(S \ {x}, k) \cup {T \cup {x} : T \in KSubsets(S \ {x}, k - 1)}

\* CountVectorizer._limit_features: the vocabularies the cut can leave.  A
\* vocabulary of at most max_features terms stays whole.  Otherwise the terms
\* kept are the first max_features of (-tfs).argsort(), tfs the corpus counts
\* of the terms: every term counted more often than the term at the cut is
\* kept, and which of the terms counted as often as it are kept is left to
\* the unstable sort, so each choice of them is an outcome.
LimitFeatures(vocab, docs) ==
    IF Cardinality(vocab) <= MaxFeatures THEN {vocab}
    ELSE LET SumCounts[d \in 0..Len(docs)] ==
                 [t \in vocab |-> IF d = 0 THEN 0
                                  ELSE SumCounts[d - 1][t] + TermCount(t, docs[d])]
             tfs == SumCounts[Len(docs)]
             More(c) == {t \in vocab : tfs[t] > c}
             cut == CHOOSE c \in {tfs[t] : t \in vocab} :
                        /\ Cardinality(More(c)) < MaxFeatures
                        /\ Cardinality(More(c - 1)) >= MaxFeatures
             tied == {t \in vocab : tfs[t] = cut}
             wanted == MaxFeatures - Cardinality(More(cut))
             parts == IF 2 * wanted <= Cardinality(tied)
                      THEN KSubsets(tied, wanted)
                      ELSE {tied \ dropped :
                               dropped \in KSubsets(tied, Cardinality(tied) - wanted)}
         IN  {More(cut) \cup part : part \in parts}

\* 10^6 * (ln((1 + n) / (1 + df)) + 1), rounded, at [n][df] for n documents of
\* which df contain the term.
IdfMicro ==
    << <<1000000>>,
       <<1405465, 1000000>>,
       <<1693147, 1287682, 1000000>>,
       <<1916291, 1510826, 1223144, 1000000>>,
       <<2098612, 1693147, 1405465, 1182322, 1000000>>,
       <<2252763, 1847298, 1559616, 1336472, 1154151, 1000000>> >>

\* One row of the tf-idf matrix, over the sorted feature names.  The l2 norm
\* divides a row by one positive number, which changes neither the order of
\* its entries nor which of them are greater than zero, so the row is kept
\* unnormalised.
TfidfRow(grams, feature_names, docs) ==
    [f \in 1..Len(feature_names) |->
        LET term == feature_names[f]
            doc_freq == Cardinality({d \in DOMAIN docs : TermCount(term, docs[d]) > 0})
        IN  TermCount(term, grams) * IdfMicro[Len(docs)][doc_freq]]

\* numpy argsort with its default kind ("quicksort", which is not stable): the
\* indices in ascending order of their values.  The order of the indices of
\* equal values is left to the build of numpy (introsort, or a vectorised
\* sort), so every order that sorts the values is an outcome.
RECURSIVE ArgSortOf(_, _)
ArgSortOf(row, idxs) ==
    IF idxs = {} THEN {<<>>}
    ELSE UNION {{<<m>> \o rest : rest \in ArgSortOf(row, idxs \ {m})} :
                   m \in {i \in idxs : \A j \in idxs : row[i] <= row[j]}}

\* The outcomes of row.argsort().
argsort(row) == ArgSortOf(row, DOMAIN row)

\* seq[start:] with Python's rules for a negative or too large start.
SliceFrom(seq, start) ==
    LET n == Len(seq)
        from == IF start < 0 THEN (IF n + start < 0 THEN 0 ELSE n + start)
                ELSE (IF start > n THEN n ELSE start)
    IN  SubSeq(seq, from + 1, n)

\* seq[::-1]
Reverse(seq) == [i \in 1..Len(seq) |-> seq[Len(seq) + 1 - i]]

\* not isinstance(original, str) or not original.strip()
IsBlankEntry(original) == ~IsStr(original) \/ strip(original.v) = <<>>

\* The filter of line 6 without `and text.strip()`: blank strings stay in the
\* corpus.
IsCleanEntry_any_string(text) == IsStr(text)

\* isinstance(text, str) and text.strip()
IsCleanEntry(text) == IsStr(text) /\ strip(text.v) # <<>>

\* The value of cleaned_index when the loop reaches texts[i], as a 1-based row
\* number: one more than the number of non-blank entries before it.
CleanedIndex(texts, i) ==
    Cardinality({j \in 1..(i - 1) : ~IsBlankEntry(texts[j])}) + 1

\* The keywords of one matrix row: argsort()[-top_k:][::-1], entries > 0 only;
\* one list for each outcome of argsort.
RowKeywords(row_data, feature_names, top_k) ==
    {LET top_indices == Reverse(SliceFrom(sorted, 0 - top_k))
         Positive(i) == row_data[i] > 0
         kept == SelectSeq(top_indices, Positive)
     IN  [k \in 1..Len(kept) |-> feature_names[kept[k]]] :
        sorted \in argsort(row_data)}

\* The sequences that take their i-th element from choices[i].
RECURSIVE OneOfEach(_)
OneOfEach(choices) ==
    IF choices = <<>> THEN {<<>>}
    ELSE {<<first>> \o rest : first \in Head(choices),
                              rest \in OneOfEach(Tail(choices))}

KwReturn(value) == [kind |-> "return", exc |-> "-", value |-> value]

KwRaise(exc) == [kind |-> "raise", exc |-> exc, value |-> <<>>]

\* extract_keywords(texts, top_k): the outcomes of one call, one for each
\* vocabulary the cut to max_features can leave and each way argsort orders
\* the equal weights of the rows.  fit_transform raises
\* ValueError ("empty vocabulary") when no document yields a token.
extract_keywords(texts, top_k) ==
    LET cleaned_texts == SelectSeq(texts, IsCleanEntry)
    IN  IF cleaned_texts = <<>>
        THEN {KwReturn([i \in 1..Len(texts) |-> <<>>])}
        ELSE LET docs == [d \in 1..Len(cleaned_texts) |->
                              Ngrams(Tokenize(cleaned_texts[d].v))]
                 vocabulary == UNION {Range(docs[d]) : d \in DOMAIN docs}
             IN  IF vocabulary = {}
                 THEN {KwRaise("ValueError")}
                 ELSE UNION {
                        LET feature_names == SortStrings(kept)
                            keywords_of ==
                              [i \in 1..Len(texts) |->
                                  IF IsBlankEntry(texts[i]) THEN {<<>>}
                                  ELSE LET cleaned_index == CleanedIndex(texts, i)
                                           row_data == TfidfRow(docs[cleaned_index],
                                                                feature_names, docs)
                                       IN  RowKeywords(row_data, feature_names, top_k)]
                        IN  {KwReturn(keywords_list) :
                                keywords_list \in OneOfEach(keywords_of)} :
                        kept \in LimitFeatures(vocabulary, docs)}

\* The most texts in one call of extract_keywords.
MaxDocs == 3

\* The largest top_k tried (the default is 5; no document of the model has
\* more than five terms).
MaxTopK == 3

KeywordTexts ==
    { PyNone,
      Str(<<>>),
      Str(<<" ", "\n">>),
      Str(<<"s", "l", "o", "w", " ", "a", "p", "p">>),
      Str(<<"A", "p", "p", " ", "a", "p", "p", " ", "l", "o", "g", "i", "n">>),
      Str(<<"a", " ", "b">>) }

KwInit ==
    /\ kw_texts \in UNION {[1..n -> KeywordTexts] : n \in 0..MaxDocs}
    /\ kw_top_k \in 0..MaxTopK
    /\ kw_result = KwReturn(<<>>)
    /\ kw_done = FALSE

KwIdle ==
    /\ kw_texts = <<>>
    /\ kw_top_k = 0
    /\ kw_result = KwReturn(<<>>)
    /\ kw_done = FALSE

CallExtractKeywords ==
    /\ ~kw_done
    /\ kw_result' \in extract_keywords(kw_texts, kw_top_k)
    /\ kw_done' = TRUE
    /\ UNCHANGED <<kw_texts, kw_top_k, sentVars, themeVars, plVars, trVars, dqVars, lateVars>>

KwNext == CallExtractKeywords

\* C4: for every sequence texts and every top_k value k, extract_keywords
\* returns exactly len(texts) lists; the list of each non-empty text has at
\* most k keywords; the list of every empty, whitespace-only or non-string
\* entry is [].
C4_Original ==
    kw_done =>
        /\ kw_result.kind = "return"
        /\ Len(kw_result.value) = Len(kw_texts)
        /\ \A i \in DOMAIN kw_texts :
               IF ValidText(kw_texts[i])
               THEN Len(kw_result.value[i]) <= kw_top_k
               ELSE kw_result.value[i] = <<>>

\* The unigrams and bigrams of the text at position i.
TermsOf(texts, i) == Range(Ngrams(Tokenize(texts[i].v)))

\* The positions of texts that hold a string with a non-whitespace character.
NonBlank(texts) == {i \in DOMAIN texts : ValidText(texts[i])}

\* texts without its empty, whitespace-only and non-string entries.
WithoutBlanks(texts) == SelectSeq(texts, ValidText)

\* The position that entry i of texts has in WithoutBlanks(texts).
RankAmongNonBlank(texts, i) == Cardinality({j \in NonBlank(texts) : j <= i})

\* C17: when extract_keywords returns, the empty, whitespace-only and
\* non-string entries of texts have no part in the weighting: the non-blank
\* entries receive, each at its original position, what a call on texts
\* without its blank entries returns (the j-th non-blank entry the j-th list
\* of that call); the keywords of an entry are terms of that text itself, and
\* some when it has a term and top_k is not zero; the blank entries receive [].
C17_BlanksOutsideCorpus ==
    (kw_done /\ kw_result.kind = "return") =>
        /\ Len(kw_result.value) = Len(kw_texts)
        /\ \E alone \in extract_keywords(WithoutBlanks(kw_texts), kw_top_k) :
               /\ alone.kind = "return"
               /\ \A i \in NonBlank(kw_texts) :
                      kw_result.value[i] = alone.value[RankAmongNonBlank(kw_texts, i)]
        /\ \A i \in DOMAIN kw_texts :
               IF i \in NonBlank(kw_texts)
               THEN /\ Range(kw_result.value[i]) \subseteq TermsOf(kw_texts, i)
                    /\ (TermsOf(kw_texts, i) # {} /\ kw_top_k > 0) =>
                           kw_result.value[i] # <<>>
               ELSE kw_result.value[i] = <<>>

\* C17's case: a blank entry before and a non-string entry after a text; the
\* text has its heaviest term at its own position, the other entries [].
C17_Witness ==
    /\ kw_done
    /\ kw_top_k = 1
    /\ kw_texts = << Str(<<" ", "\n">>),
                     Str(<<"A", "p", "p", " ", "a", "p", "p", " ", "l", "o", "g", "i", "n">>),
                     PyNone >>
    /\ kw_result.value = << <<>>, << <<"a", "p", "p">> >>, <<>> >>

\* The tf-idf weight (up to the row's norm) of every term of the corpus in
\* the document at position i of texts: its count in the document times the
\* idf of the term over the non-blank texts.
WeightsOf(texts, i) ==
    LET corpus == WithoutBlanks(texts)
        grams == [d \in DOMAIN corpus |-> Ngrams(Tokenize(corpus[d].v))]
        terms == UNION {Range(grams[d]) : d \in DOMAIN grams}
        own == grams[RankAmongNonBlank(texts, i)]
    IN  [t \in terms |->
            TermCount(t, own) *
            IdfMicro[Len(grams)][Cardinality({d \in DOMAIN grams :
                                                TermCount(t, grams[d]) > 0})]]

Min(a, b) == IF a < b THEN a ELSE b

\* C18: each keyword list that extract_keywords returns for a non-empty
\* document is in the order of non-increasing weight, holds only terms whose
\* weight in the document is greater than zero, and consists of the
\* min(top_k, number of non-zero terms) terms of highest weight: no term left
\* out weighs more than a term of the list.
C18_Original ==
    (kw_done /\ kw_result.kind = "return") =>
        \A i \in NonBlank(kw_texts) :
            LET w == WeightsOf(kw_texts, i)
                keywords == kw_result.value[i]
                nonzero == {t \in DOMAIN w : w[t] > 0}
            IN  /\ \A k \in DOMAIN keywords : keywords[k] \in nonzero
                /\ \A j, k \in DOMAIN keywords :
                       j < k => /\ w[keywords[j]] >= w[keywords[k]]
                                /\ keywords[j] # keywords[k]
                /\ Len(keywords) = Min(kw_top_k, Cardinality(nonzero))
                /\ \A t \in nonzero \ Range(keywords) :
                       \A k \in DOMAIN keywords : w[t] <= w[keywords[k]]

(***************************************************************************)
(* data/text_cleaning.py                                                   *)
(*                                                                         *)
(* nlp is spaCy's en_core_web_sm without parser and ner.  Its tokenizer    *)
(* and its stop list are rules and are modelled as such; token.lemma_      *)
(* comes from a statistical tagger and is given as a table of the words    *)
(* the model and the repository's tests use.                               *)
(***************************************************************************)
\* spacy.lang.en.stop_words.STOP_WORDS, without its entries that hold an
\* apostrophe (line 9 removes every apostrophe before nlp sees the text).
StopWords ==
    {
      <<"a">>, <<"a", "b", "o", "u", "t">>, <<"a", "b", "o", "v", "e">>,
      <<"a", "c", "r", "o", "s", "s">>, <<"a", "f", "t", "e", "r">>,
      <<"a", "f", "t", "e", "r", "w", "a", "r", "d", "s">>,
      <<"a", "g", "a", "i", "n">>, <<"a", "g", "a", "i", "n", "s", "t">>,
      <<"a", "l", "l">>, <<"a", "l", "m", "o", "s", "t">>,
      <<"a", "l", "o", "n", "e">>, <<"a", "l", "o", "n", "g">>,
      <<"a", "l", "r", "e", "a", "d", "y">>, <<"a", "l", "s", "o">>,
      <<"a", "l", "t", "h", "o", "u", "g", "h">>,
      <<"a", "l", "w", "a", "y", "s">>, <<"a", "m">>,
      <<"a", "m", "o", "n", "g">>, <<"a", "m", "o", "n", "g", "s", "t">>,
      <<"a", "m", "o", "u", "n", "t">>, <<"a", "n">>, <<"a", "n", "d">>,
      <<"a", "n", "o", "t", "h", "e", "r">>, <<"a", "n", "y">>,
      <<"a", "n", "y", "h", "o", "w">>, <<"a", "n", "y", "o", "n", "e">>,
      <<"a", "n", "y", "t", "h", "i", "n", "g">>,
      <<"a", "n", "y", "w", "a", "y">>,
      <<"a", "n", "y", "w", "h", "e", "r", "e">>, <<"a", "r", "e">>,
      <<"a", "r", "o", "u", "n", "d">>, <<"a", "s">>, <<"a", "t">>,
      <<"b", "a", "c", "k">>, <<"b", "e">>, <<"b", "e", "c", "a", "m", "e">>,
      <<"b", "e", "c", "a", "u", "s", "e">>, <<"b", "e", "c", "o", "m", "e">>,
      <<"b", "e", "c", "o", "m", "e", "s">>,
      <<"b", "e", "c", "o", "m", "i", "n", "g">>, <<"b", "e", "e", "n">>,
      <<"b", "e", "f", "o", "r", "e">>,
      <<"b", "e", "f", "o", "r", "e", "h", "a", "n", "d">>,
      <<"b", "e", "h", "i", "n", "d">>, <<"b", "e", "i", "n", "g">>,
      <<"b", "e", "l", "o", "w">>, <<"b", "e", "s", "i", "d", "e">>,
      <<"b", "e", "s", "i", "d", "e", "s">>,
      <<"b", "e", "t", "w", "e", "e", "n">>, <<"b", "e", "y", "o", "n", "d">>,
      <<"b", "o", "t", "h">>, <<"b", "o", "t", "t", "o", "m">>,
      <<"b", "u", "t">>, <<"b", "y">>, <<"c", "a">>, <<"c", "a", "l", "l">>,
      <<"c", "a", "n">>, <<"c", "a", "n", "n", "o", "t">>,
      <<"c", "o", "u", "l", "d">>, <<"d", "i", "d">>, <<"d", "o">>,
      <<"d", "o", "e", "s">>, <<"d", "o", "i", "n", "g">>,
      <<"d", "o", "n", "e">>, <<"d", "o", "w", "n">>, <<"d", "u", "e">>,
      <<"d", "u", "r", "i", "n", "g">>, <<"e", "a", "c", "h">>,
      <<"e", "i", "g", "h", "t">>, <<"e", "i", "t", "h", "e", "r">>,
      <<"e", "l", "e", "v", "e", "n">>, <<"e", "l", "s", "e">>,
      <<"e", "l", "s", "e", "w", "h", "e", "r", "e">>,
      <<"e", "m", "p", "t", "y">>, <<"e", "n", "o", "u", "g", "h">>,
      <<"e", "v", "e", "n">>, <<"e", "v", "e", "r">>,
      <<"e", "v", "e", "r", "y">>, <<"e", "v", "e", "r", "y", "o", "n", "e">>,
      <<"e", "v", "e", "r", "y", "t", "h", "i", "n", "g">>,
      <<"e", "v", "e", "r", "y", "w", "h", "e", "r", "e">>,
      <<"e", "x", "c", "e", "p", "t">>, <<"f", "e", "w">>,
      <<"f", "i", "f", "t", "e", "e", "n">>, <<"f", "i", "f", "t", "y">>,
      <<"f", "i", "r", "s", "t">>, <<"f", "i", "v", "e">>, <<"f", "o", "r">>,
      <<"f", "o", "r", "m", "e", "r">>,
      <<"f", "o", "r", "m", "e", "r", "l", "y">>, <<"f", "o", "r", "t", "y">>,
      <<"f", "o", "u", "r">>, <<"f", "r", "o", "m">>,
      <<"f", "r", "o", "n", "t">>, <<"f", "u", "l", "l">>,
      <<"f", "u", "r", "t", "h", "e", "r">>, <<"g", "e", "t">>,
      <<"g", "i", "v", "e">>, <<"g", "o">>, <<"h", "a", "d">>,
      <<"h", "a", "s">>, <<"h", "a", "v", "e">>, <<"h", "e">>,
      <<"h", "e", "n", "c", "e">>, <<"h", "e", "r">>, <<"h", "e", "r", "e">>,
      <<"h", "e", "r", "e", "a", "f", "t", "e", "r">>,
      <<"h", "e", "r", "e", "b", "y">>, <<"h", "e", "r", "e", "i", "n">>,
      <<"h", "e", "r", "e", "u", "p", "o", "n">>, <<"h", "e", "r", "s">>,
      <<"h", "e", "r", "s", "e", "l", "f">>, <<"h", "i", "m">>,
      <<"h", "i", "m", "s", "e", "l", "f">>, <<"h", "i", "s">>,
      <<"h", "o", "w">>, <<"h", "o", "w", "e", "v", "e", "r">>,
      <<"h", "u", "n", "d", "r", "e", "d">>, <<"i">>, <<"i", "f">>,
      <<"i", "n">>, <<"i", "n", "d", "e", "e", "d">>, <<"i", "n", "t", "o">>,
      <<"i", "s">>, <<"i", "t">>, <<"i", "t", "s">>,
      <<"i", "t", "s", "e", "l", "f">>, <<"j", "u", "s", "t">>,
      <<"k", "e", "e", "p">>, <<"l", "a", "s", "t">>,
      <<"l", "a", "t", "t", "e", "r">>,
      <<"l", "a", "t", "t", "e", "r", "l", "y">>, <<"l", "e", "a", "s", "t">>,
      <<"l", "e", "s", "s">>, <<"m", "a", "d", "e">>, <<"m", "a", "k", "e">>,
      <<"m", "a", "n", "y">>, <<"m", "a", "y">>, <<"m", "e">>,
      <<"m", "e", "a", "n", "w", "h", "i", "l", "e">>,
      <<"m", "i", "g", "h", "t">>, <<"m", "i", "n", "e">>,
      <<"m", "o", "r", "e">>, <<"m", "o", "r", "e", "o", "v", "e", "r">>,
      <<"m", "o", "s", "t">>, <<"m", "o", "s", "t", "l", "y">>,
      <<"m", "o", "v", "e">>, <<"m", "u", "c", "h">>, <<"m", "u", "s", "t">>,
      <<"m", "y">>, <<"m", "y", "s", "e", "l", "f">>, <<"n", "a", "m", "e">>,
      <<"n", "a", "m", "e", "l", "y">>, <<"n", "e", "i", "t", "h", "e", "r">>,
      <<"n", "e", "v", "e", "r">>,
      <<"n", "e", "v", "e", "r", "t", "h", "e", "l", "e", "s", "s">>,
      <<"n", "e", "x", "t">>, <<"n", "i", "n", "e">>, <<"n", "o">>,
      <<"n", "o", "b", "o", "d", "y">>, <<"n", "o", "n", "e">>,
      <<"n", "o", "o", "n", "e">>, <<"n", "o", "r">>, <<"n", "o", "t">>,
      <<"n", "o", "t", "h", "i", "n", "g">>, <<"n", "o", "w">>,
      <<"n", "o", "w", "h", "e", "r", "e">>, <<"o", "f">>, <<"o", "f", "f">>,
      <<"o", "f", "t", "e", "n">>, <<"o", "n">>, <<"o", "n", "c", "e">>,
      <<"o", "n", "e">>, <<"o", "n", "l", "y">>, <<"o", "n", "t", "o">>,
      <<"o", "r">>, <<"o", "t", "h", "e", "r">>,
      <<"o", "t", "h", "e", "r", "s">>,
      <<"o", "t", "h", "e", "r", "w", "i", "s", "e">>, <<"o", "u", "r">>,
      <<"o", "u", "r", "s">>, <<"o", "u", "r", "s", "e", "l", "v", "e", "s">>,
      <<"o", "u", "t">>, <<"o", "v", "e", "r">>, <<"o", "w", "n">>,
      <<"p", "a", "r", "t">>, <<"p", "e", "r">>,
      <<"p", "e", "r", "h", "a", "p", "s">>, <<"p", "l", "e", "a", "s", "e">>,
      <<"p", "u", "t">>, <<"q", "u", "i", "t", "e">>,
      <<"r", "a", "t", "h", "e", "r">>, <<"r", "e">>,
      <<"r", "e", "a", "l", "l", "y">>,
      <<"r", "e", "g", "a", "r", "d", "i", "n", "g">>, <<"s", "a", "m", "e">>,
      <<"s", "a", "y">>, <<"s", "e", "e">>, <<"s", "e", "e", "m">>,
      <<"s", "e", "e", "m", "e", "d">>, <<"s", "e", "e", "m", "i", "n", "g">>,
      <<"s", "e", "e", "m", "s">>, <<"s", "e", "r", "i", "o", "u", "s">>,
      <<"s", "e", "v", "e", "r", "a", "l">>, <<"s", "h", "e">>,
      <<"s", "h", "o", "u", "l", "d">>, <<"s", "h", "o", "w">>,
      <<"s", "i", "d", "e">>, <<"s", "i", "n", "c", "e">>, <<"s", "i", "x">>,
      <<"s", "i", "x", "t", "y">>, <<"s", "o">>, <<"s", "o", "m", "e">>,
      <<"s", "o", "m", "e", "h", "o", "w">>,
      <<"s", "o", "m", "e", "o", "n", "e">>,
      <<"s", "o", "m", "e", "t", "h", "i", "n", "g">>,
      <<"s", "o", "m", "e", "t", "i", "m", "e">>,
      <<"s", "o", "m", "e", "t", "i", "m", "e", "s">>,
      <<"s", "o", "m", "e", "w", "h", "e", "r", "e">>,
      <<"s", "t", "i", "l", "l">>, <<"s", "u", "c", "h">>,
      <<"t", "a", "k", "e">>, <<"t", "e", "n">>, <<"t", "h", "a", "n">>,
      <<"t", "h", "a", "t">>, <<"t", "h", "e">>, <<"t", "h", "e", "i", "r">>,
      <<"t", "h", "e", "m">>,
      <<"t", "h", "e", "m", "s", "e", "l", "v", "e", "s">>,
      <<"t", "h", "e", "n">>, <<"t", "h", "e", "n", "c", "e">>,
      <<"t", "h", "e", "r", "e">>,
      <<"t", "h", "e", "r", "e", "a", "f", "t", "e", "r">>,
      <<"t", "h", "e", "r", "e", "b", "y">>,
      <<"t", "h", "e", "r", "e", "f", "o", "r", "e">>,
      <<"t", "h", "e", "r", "e", "i", "n">>,
      <<"t", "h", "e", "r", "e", "u", "p", "o", "n">>,
      <<"t", "h", "e", "s", "e">>, <<"t", "h", "e", "y">>,
      <<"t", "h", "i", "r", "d">>, <<"t", "h", "i", "s">>,
      <<"t", "h", "o", "s", "e">>, <<"t", "h", "o", "u", "g", "h">>,
      <<"t", "h", "r", "e", "e">>, <<"t", "h", "r", "o", "u", "g", "h">>,
      <<"t", "h", "r", "o", "u", "g", "h", "o", "u", "t">>,
      <<"t", "h", "r", "u">>, <<"t", "h", "u", "s">>, <<"t", "o">>,
      <<"t", "o", "g", "e", "t", "h", "e", "r">>, <<"t", "o", "o">>,
      <<"t", "o", "p">>, <<"t", "o", "w", "a", "r", "d">>,
      <<"t", "o", "w", "a", "r", "d", "s">>, <<"t", "w", "e", "l", "v", "e">>,
      <<"t", "w", "e", "n", "t", "y">>, <<"t", "w", "o">>,
      <<"u", "n", "d", "e", "r">>, <<"u", "n", "l", "e", "s", "s">>,
      <<"u", "n", "t", "i", "l">>, <<"u", "p">>, <<"u", "p", "o", "n">>,
      <<"u", "s">>, <<"u", "s", "e", "d">>, <<"u", "s", "i", "n", "g">>,
      <<"v", "a", "r", "i", "o", "u", "s">>, <<"v", "e", "r", "y">>,
      <<"v", "i", "a">>, <<"w", "a", "s">>, <<"w", "e">>,
      <<"w", "e", "l", "l">>, <<"w", "e", "r", "e">>, <<"w", "h", "a", "t">>,
      <<"w", "h", "a", "t", "e", "v", "e", "r">>, <<"w", "h", "e", "n">>,
      <<"w", "h", "e", "n", "c", "e">>,
      <<"w", "h", "e", "n", "e", "v", "e", "r">>, <<"w", "h", "e", "r", "e">>,
      <<"w", "h", "e", "r", "e", "a", "f", "t", "e", "r">>,
      <<"w", "h", "e", "r", "e", "a", "s">>,
      <<"w", "h", "e", "r", "e", "b", "y">>,
      <<"w", "h", "e", "r", "e", "i", "n">>,
      <<"w", "h", "e", "r", "e", "u", "p", "o", "n">>,
      <<"w", "h", "e", "r", "e", "v", "e", "r">>,
      <<"w", "h", "e", "t", "h", "e", "r">>, <<"w", "h", "i", "c", "h">>,
      <<"w", "h", "i", "l", "e">>, <<"w", "h", "i", "t", "h", "e", "r">>,
      <<"w", "h", "o">>, <<"w", "h", "o", "e", "v", "e", "r">>,
      <<"w", "h", "o", "l", "e">>, <<"w", "h", "o", "m">>,
      <<"w", "h", "o", "s", "e">>, <<"w", "h", "y">>, <<"w", "i", "l", "l">>,
      <<"w", "i", "t", "h">>, <<"w", "i", "t", "h", "i", "n">>,
      <<"w", "i", "t", "h", "o", "u", "t">>, <<"w", "o", "u", "l", "d">>,
      <<"y", "e", "t">>, <<"y", "o", "u">>, <<"y", "o", "u", "r">>,
      <<"y", "o", "u", "r", "s">>, <<"y", "o", "u", "r", "s", "e", "l", "f">>,
      <<"y", "o", "u", "r", "s", "e", "l", "v", "e", "s">> }

\* token.is_stop
is_stop(token) == token \in StopWords

RECURSIVE Flatten(_)
Flatten(seqs) == IF seqs = <<>> THEN <<>> ELSE Head(seqs) \o Flatten(Tail(seqs))

\* The tokenizer exceptions of spacy.lang.en (tokenizer_exceptions.py, merged
\* with the emoticons of spacy/lang/tokenizer_exceptions.py) that are written
\* in lower case with word characters alone, the only ones a span can equal
\* after lines 8 and 9: each is a span and the tokens the tokenizer cuts it
\* into.  A word joined to its contracted endings ("im" -> "i", "m";
\* "doesnt" -> "does", "nt"; "whats" -> "what", "s"), the hours with am or pm
\* ("5pm" -> "5", "pm"), some single words that are cut ("cannot" -> "can",
\* "not"), and the entries of one token, which stay whole ("doin", "em",
\* "o_o"); the spans of _exclude are words of their own and have no entry.
TokenizerExceptions ==
    LET Contractions(words, endings) ==
            {[orth |-> word \o Flatten(ending), tokens |-> <<word>> \o ending] :
                word \in words, ending \in endings}
        m == <<"m">>
        a == <<"a">>
        s == <<"s">>
        d == <<"d">>
        ll == <<"l", "l">>
        ve == <<"v", "e">>
        re == <<"r", "e">>
        nt == <<"n", "t">>
        all ==
            Contractions({<<"i">>}, {<<m>>, <<m, a>>})
            \cup Contractions({<<"i">>, <<"y", "o", "u">>, <<"h", "e">>, <<"s", "h", "e">>, <<"i", "t">>, <<"w", "e">>, <<"t", "h", "e", "y">>},
                              {<<ll>>, <<ll, ve>>, <<d>>, <<d, ve>>})
            \cup Contractions({<<"i">>, <<"y", "o", "u">>, <<"w", "e">>, <<"t", "h", "e", "y">>}, {<<ve>>})
            \cup Contractions({<<"y", "o", "u">>, <<"w", "e">>, <<"t", "h", "e", "y">>}, {<<re>>})
            \cup Contractions({<<"h", "e">>, <<"s", "h", "e">>, <<"i", "t">>}, {<<s>>})
            \cup Contractions(
                     {
                      <<"w", "h", "o">>, <<"w", "h", "a", "t">>,
                      <<"w", "h", "e", "n">>, <<"w", "h", "e", "r", "e">>,
                      <<"w", "h", "y">>, <<"h", "o", "w">>,
                      <<"t", "h", "e", "r", "e">>, <<"t", "h", "a", "t">>,
                      <<"t", "h", "i", "s">>, <<"t", "h", "e", "s", "e">>,
                      <<"t", "h", "o", "s", "e">> },
                     {<<s>>, <<ll>>, <<ll, ve>>, <<re>>, <<ve>>, <<d>>, <<d, ve>>})
            \cup Contractions(
                     {
                      <<"c", "a">>, <<"c", "o", "u", "l", "d">>, <<"d", "o">>,
                      <<"d", "o", "e", "s">>, <<"d", "i", "d">>,
                      <<"h", "a", "d">>, <<"m", "a", "y">>,
                      <<"m", "i", "g", "h", "t">>, <<"m", "u", "s", "t">>,
                      <<"n", "e", "e", "d">>, <<"o", "u", "g", "h", "t">>,
                      <<"s", "h", "a">>, <<"s", "h", "o", "u", "l", "d">>,
                      <<"w", "o">>, <<"w", "o", "u", "l", "d">> },
                     {<<nt>>, <<nt, ve>>})
            \cup Contractions({
                      <<"c", "o", "u", "l", "d">>,
                      <<"m", "i", "g", "h", "t">>, <<"m", "u", "s", "t">>,
                      <<"s", "h", "o", "u", "l", "d">>,
                      <<"w", "o", "u", "l", "d">> },
                              {<<ve>>})
            \cup Contractions(
                     {
                      <<"a", "i">>, <<"a", "r", "e">>, <<"i", "s">>,
                      <<"w", "a", "s">>, <<"w", "e", "r", "e">>,
                      <<"h", "a", "v", "e">>, <<"h", "a", "s">>,
                      <<"d", "a", "r", "e">> },
                     {<<nt>>})
            \cup Contractions(
                     {
                      <<"1">>, <<"2">>, <<"3">>, <<"4">>, <<"5">>, <<"6">>,
                      <<"7">>, <<"8">>, <<"9">>, <<"1", "0">>, <<"1", "1">>,
                      <<"1", "2">> },
                     {<<<<"a", "m">>>>, <<<<"p", "m">>>>})
            \cup Contractions({<<"y">>}, {<<<<"a", "l", "l">>>>})
            \cup Contractions({<<"n", "o", "t">>}, {<<ve>>})
            \cup Contractions({<<"c", "a", "n">>}, {<<<<"n", "o", "t">>>>})
            \cup Contractions({<<"g", "o", "n">>}, {<<<<"n", "a">>>>})
            \cup Contractions({<<"g", "o", "t">>}, {<<<<"t", "a">>>>})
            \cup Contractions(
                     {
                      <<"d", "o", "i", "n">>, <<"g", "o", "i", "n">>,
                      <<"h", "a", "v", "i", "n">>,
                      <<"l", "o", "v", "i", "n">>,
                      <<"n", "o", "t", "h", "i", "n">>,
                      <<"n", "u", "t", "h", "i", "n">>, <<"o", "l">>,
                      <<"s", "o", "m", "e", "t", "h", "i", "n">>,
                      <<"e", "m">>, <<"l", "l">>, <<"n", "u", "f", "f">>,
                      <<"0", "_", "0">>, <<"0", "_", "o">>, <<"o", "_", "0">>,
                      <<"o", "_", "o">>, <<"v", "_", "v">> },
                     {<<>>})
        exclude ==
            {
              <<"i", "l", "l">>, <<"i", "t", "s">>, <<"h", "e", "l", "l">>,
              <<"s", "h", "e", "l", "l">>, <<"s", "h", "e", "d">>,
              <<"w", "e", "r", "e">>, <<"w", "e", "l", "l">>,
              <<"w", "h", "o", "r", "e">> }
    IN  {exc \in all : exc.orth \notin exclude}

\* The spans that are tokenizer exceptions.
IsSpecialCase(string) == \E exc \in TokenizerExceptions : exc.orth = string

\* The units of spacy/lang/char_classes.py that are in lower case and are
\* written with the letters of the model.
Units ==
    {
      <<"k", "m">>, <<"m">>, <<"d", "m">>, <<"c", "m">>, <<"m", "m">>,
      <<"h", "a">>, <<"n", "m">>, <<"y", "d">>, <<"i", "n">>, <<"f", "t">>,
      <<"k", "g">>, <<"g">>, <<"m", "g">>, <<"t">>, <<"l", "b">>,
      <<"o", "z">>, <<"k", "m", "h">>, <<"m", "p", "h">>,
      <<"m", "b", "a", "r">>, <<"m", "b">>, <<"k", "b">>, <<"g", "b">>,
      <<"t", "b">> }

\* Tokenizer.find_prefix: the length of the prefix at the start of the
\* string.  Of the prefixes of spacy/lang/punctuation.py only the underscore
\* is a word character.
find_prefix(string) == IF string # <<>> /\ string[1] = "_" THEN 1 ELSE 0

\* Tokenizer.find_suffix: the length of the suffix at the end of the string,
\* the leftmost match of the suffix rules.  Of the suffixes only the
\* underscore and a unit that follows a digit are made of word characters.
find_suffix(string) ==
    LET n == Len(string)
        unit_lens == {k \in 1..(n - 1) :
                         /\ SubSeq(string, n - k + 1, n) \in Units
                         /\ string[n - k] \in Range(DigitChars)}
    IN  IF unit_lens # {} THEN CHOOSE k \in unit_lens : \A j \in unit_lens : j <= k
        ELSE IF n > 0 /\ string[n] = "_" THEN 1
        ELSE 0

\* The tokens of one span without whitespace (Tokenizer._split_affixes and
\* _attach_tokens): an exception is cut as its entry says; otherwise one prefix
\* and one suffix are split off, unless what is left after the prefix, or
\* after the suffix, is an exception, and the rest is treated the same way.  A
\* span of word characters matches no infix rule and no URL.
RECURSIVE SpanTokens(_)
SpanTokens(span) ==
    IF span = <<>> THEN <<>>
    ELSE IF IsSpecialCase(span)
    THEN (CHOOSE exc \in TokenizerExceptions : exc.orth = span).tokens
    ELSE LET n == Len(span)
             pre_len == find_prefix(span)
             minus_pre == SubSeq(span, pre_len + 1, n)
             suf_len == find_suffix(minus_pre)
             minus_suf == SubSeq(span, 1, n - suf_len)
         IN  IF pre_len # 0 /\ IsSpecialCase(minus_pre)
             THEN <<SubSeq(span, 1, pre_len)>> \o SpanTokens(minus_pre)
             ELSE IF suf_len # 0 /\ IsSpecialCase(minus_suf)
             THEN SpanTokens(minus_suf) \o <<SubSeq(span, n - suf_len + 1, n)>>
             ELSE IF pre_len # 0 \/ suf_len # 0
             THEN (IF pre_len # 0 THEN <<SubSeq(span, 1, pre_len)>> ELSE <<>>)
                      \o SpanTokens(SubSeq(span, pre_len + 1, n - suf_len))
                      \o (IF suf_len # 0 THEN <<SubSeq(span, n - suf_len + 1, n)>>
                          ELSE <<>>)
             ELSE <<span>>

\* Tokenizer.__call__: the text from position i on, cut where whitespace
\* begins or ends; start is where the span being read began, in_ws whether it
\* is whitespace.  One blank after a token belongs to that token; any other
\* whitespace is a token of its own.
RECURSIVE Spans(_, _, _, _)
Spans(string, i, start, in_ws) ==
    IF i > Len(string)
    THEN (IF start < i THEN <<SubSeq(string, start, Len(string))>> ELSE <<>>)
    ELSE IF (string[i] \in Whitespace) # in_ws
    THEN (IF start < i THEN <<SubSeq(string, start, i - 1)>> ELSE <<>>)
             \o Spans(string, i + 1, IF string[i] = " " THEN i + 1 ELSE i, ~in_ws)
    ELSE Spans(string, i + 1, start, in_ws)

\* nlp(text): the texts of the tokens of the Doc.
nlp(text) ==
    IF text = <<>> THEN <<>>
    ELSE LET spans == Spans(text, 1, 1, text[1] \in Whitespace)
         IN  Flatten([k \in 1..Len(spans) |->
                         IF spans[k][1] \in Whitespace THEN <<spans[k]>>
                         ELSE SpanTokens(spans[k])])

\* token.lemma_ for the words of the model and of the repository's tests
\* (tests/data/test_text_cleaning.py: best -> good, nt -> not); a whitespace
\* token, a number and a word without entry are their own lemma.
Lemma(token) ==
    IF token = <<"c", "r", "a", "s", "h", "e", "s">> THEN <<"c", "r", "a", "s", "h">>
    ELSE IF token = <<"b", "e", "s", "t">> THEN <<"g", "o", "o", "d">>
    ELSE IF token = <<"n", "t">> THEN <<"n", "o", "t">>
    ELSE token

\* re.sub(r"[^\w\s]", "", text)
RemovePunctuation(text) ==
    LET Kept(c) == IsWordChar(c) \/ c \in Whitespace
    IN  SelectSeq(text, Kept)

\* " ".join(tokens)
RECURSIVE JoinWithSpace(_)
JoinWithSpace(tokens) ==
    IF tokens = <<>> THEN <<>>
    ELSE IF Len(tokens) = 1 THEN tokens[1]
    ELSE tokens[1] \o <<" ">> \o JoinWithSpace(Tail(tokens))

\* preprocess_reviews(text): str(text).lower(), punctuation removed, then the
\* lemmas of the tokens that are not stop words, joined by single spaces.
preprocess_reviews(text) ==
    LET lowered == lower(text.v)
        stripped == RemovePunctuation(lowered)
        doc == nlp(stripped)
        NotStop(token) == ~is_stop(token)
        kept == SelectSeq(doc, NotStop)
    IN  JoinWithSpace([k \in 1..Len(kept) |-> Lemma(kept[k])])

(***************************************************************************)
(* pipeline/sentiment_thematic_pipeline.py                                 *)
(***************************************************************************)
\* float("nan"), the cell pandas reads from an empty CSV field.
PyNaN == [t |-> "float", v |-> <<"n", "a", "n">>]

\* pd.NaT
NaT == [t |-> "NaTType", v |-> <<"N", "a", "T">>]

\* pd.NA
NA == [t |-> "NAType", v |-> <<"<", "N", "A", ">">>]

\* pd.isna on a cell
IsNa(cell) == cell \in {PyNone, PyNaN, NaT, NA}

\* extract_keywords(..., top_k=5)
PipelineTopK == 5

\* df with the column name set to col.
WithColumn(frame, name, col) ==
    [c \in DOMAIN frame \cup {name} |-> IF c = name THEN col ELSE frame[c]]

\* df.rename(columns={"review": "review_text"})
RenameColumn(name) == IF name = "review" THEN "review_text" ELSE name

\* frame with every column under its new name.
RenameColumns(frame) ==
    [c \in {RenameColumn(h) : h \in DOMAIN frame} |->
        frame[CHOOSE h \in DOMAIN frame : RenameColumn(h) = c]]

\* An int64 cell and a float64 cell of a whole number, by the digits of str().
PyInt(digits) == [t |-> "int", v |-> digits]

PyFloat(digits) == [t |-> "float", v |-> digits \o <<".", "0">>]

\* The fields that read_csv takes for missing values: the empty field and
\* its default na_values.
NaValues ==
    {
      <<>>, <<"#", "N", "/", "A">>,
      <<"#", "N", "/", "A", " ", "N", "/", "A">>, <<"#", "N", "A">>,
      <<"-", "1", ".", "#", "I", "N", "D">>,
      <<"-", "1", ".", "#", "Q", "N", "A", "N">>, <<"-", "N", "a", "N">>,
      <<"-", "n", "a", "n">>, <<"1", ".", "#", "I", "N", "D">>,
      <<"1", ".", "#", "Q", "N", "A", "N">>, <<"<", "N", "A", ">">>,
      <<"N", "/", "A">>, <<"N", "A">>, <<"N", "U", "L", "L">>,
      <<"N", "a", "N">>, <<"N", "o", "n", "e">>, <<"n", "/", "a">>,
      <<"n", "a", "n">>, <<"n", "u", "l", "l">> }

\* A field that read_csv parses as an integer: digits only.
IsIntField(field) ==
    field # <<>> /\ \A k \in DOMAIN field : field[k] \in Range(DigitChars)

\* The digits of str(int(field)): leading zeros dropped.
RECURSIVE IntDigits(_)
IntDigits(field) ==
    IF Len(field) > 1 /\ field[1] = "0" THEN IntDigits(Tail(field)) ELSE field

\* One column as read_csv types it, from the text of its fields.  The type is
\* chosen for the column as a whole: int64 when every field is an integer,
\* float64 when the others are missing (5 becomes 5.0), and object (the
\* fields as strings, the missing ones NaN) otherwise.
ReadColumn(fields) ==
    LET present == {i \in DOMAIN fields : fields[i] \notin NaValues}
        numeric == present # {} /\ \A i \in present : IsIntField(fields[i])
    IN  [i \in DOMAIN fields |->
            IF i \notin present THEN PyNaN
            ELSE IF ~numeric THEN Str(fields[i])
            ELSE IF present = DOMAIN fields THEN PyInt(IntDigits(fields[i]))
            ELSE PyFloat(IntDigits(fields[i]))]

\* pd.read_csv(input_csv) on a file that has a header: the columns of the
\* file, each typed as a whole.
read_csv(file) ==
    [c \in Range(file.header) |->
        ReadColumn([i \in 1..Len(file.rows) |-> file.rows[i][IndexOf(file.header, c)]])]

NoError == [stage |-> "-", exc |-> "-"]

NoFile == [exists |-> FALSE, header |-> <<>>, rows |-> <<>>]

\* A file of no bytes: read_csv finds no columns to parse.
EmptyFile == [exists |-> TRUE, header |-> <<>>, rows |-> <<>>]

NoOutput == [written |-> FALSE, table |-> <<>>]

\* The most rows of an input file.
MaxRows == 2

\* The review fields of the input files: two reviews, one of them with a run
\* of blanks, a review of punctuation and a stop word, a number, and the
\* empty field (written "" in a file of one column, where an empty line
\* would be skipped).
ReviewFields ==
    { <<"L", "o", "g", "i", "n", " ", "c", "r", "a", "s", "h", "e", "s", "!">>,
      <<"V", "e", "r", "y", " ", " ", "S", "L", "O", "W">>,
      <<"I", "t", "!", "!">>,
      <<"5">>,
      <<>> }

\* The files with a header: the column review alone (the file of
\* tests/utils/test_main_pipeline.py), review with a column rating that
\* numbers the rows, and a file without a review column.
InputFiles ==
    {NoFile, EmptyFile} \cup
    UNION {{[exists |-> TRUE, header |-> <<"review">>,
             rows |-> [i \in DOMAIN reviews |-> <<reviews[i]>>]],
            [exists |-> TRUE, header |-> <<"review", "rating">>,
             rows |-> [i \in DOMAIN reviews |-> <<reviews[i], <<DigitChars[i + 1]>>>>]],
            [exists |-> TRUE, header |-> <<"text">>,
             rows |-> [i \in DOMAIN reviews |-> <<reviews[i]>>]]} :
              reviews \in UNION {[1..n -> ReviewFields] : n \in 1..MaxRows}}

\* The model outcomes tried in a pipeline run.
PipelineOutcomes ==
    {o \in ModelOutcomes :
        \/ o.kind = "raise"
        \/ o.label = POSITIVE /\ o.score = 1000
        \/ o.label = NEGATIVE /\ o.score = 627}

PlInit ==
    /\ pl_stage = "Load"
    /\ input_csv \in InputFiles
    /\ df = <<>>
    /\ output_csv = NoOutput
    /\ pl_error = NoError

PlIdle ==
    /\ pl_stage = "Idle"
    /\ input_csv = NoFile
    /\ df = <<>>
    /\ output_csv = NoOutput
    /\ pl_error = NoError

Abort(stage, exc) ==
    /\ pl_stage' = "Aborted"
    /\ pl_error' = [stage |-> stage, exc |-> exc]

\* Lines 13-15: pd.read_csv and the renaming of "review".  The table has the
\* columns of the file and no other.
Load ==
    /\ pl_stage = "Load"
    /\ IF ~input_csv.exists
       THEN /\ Abort("Load", "FileNotFoundError")
            /\ UNCHANGED df
       ELSE IF input_csv.header = <<>>
       THEN /\ Abort("Load", "EmptyDataError")
            /\ UNCHANGED df
       ELSE /\ df' = RenameColumns(read_csv(input_csv))
            /\ pl_stage' = "Normalize"
            /\ UNCHANGED pl_error
    /\ UNCHANGED <<input_csv, output_csv, sentVars, themeVars, kwVars, trVars, dqVars, lateVars>>

\* Lines 17-18: cleaned_text = review_text.apply(preprocess_reviews).
Normalize ==
    /\ pl_stage = "Normalize"
    /\ IF "review_text" \notin DOMAIN df
       THEN /\ Abort("Normalize", "KeyError")
            /\ UNCHANGED df
       ELSE /\ df' = WithColumn(df, "cleaned_text",
                        [i \in 1..Len(df["review_text"]) |->
                            Str(preprocess_reviews(df["review_text"][i]))])
            /\ pl_stage' = "Classify"
            /\ UNCHANGED pl_error
    /\ UNCHANGED <<input_csv, output_csv, sentVars, themeVars, kwVars, trVars, dqVars, lateVars>>

\* Lines 20-24: cleaned_text.apply(analyze_sentiment), row after row; the
\* first exception ends the run.
Classify ==
    /\ pl_stage = "Classify"
    /\ \E oracles \in [1..Len(df["cleaned_text"]) -> PipelineOutcomes] :
          LET n == Len(df["cleaned_text"])
              sentiment_results ==
                  [i \in 1..n |-> analyze_sentiment(df["cleaned_text"][i], oracles[i])]
              failed == {i \in 1..n : sentiment_results[i].kind = "raise"}
              last == IF failed = {} THEN n ELSE SetMin(failed)
          IN  /\ model_calls' =
                     [i \in 1..(last - 1) |-> sentiment_results[i].calls[1]]
                         \o sentiment_results[last].calls
              /\ model_replies' =
                     [i \in 1..(last - 1) |-> sentiment_results[i].replies[1]]
                         \o sentiment_results[last].replies
              /\ IF failed # {}
                 THEN /\ Abort("Classify", sentiment_results[last].exc)
                      /\ UNCHANGED df
                 ELSE /\ df' = WithColumn(
                                 WithColumn(df, "sentiment_label",
                                     [i \in 1..n |-> sentiment_results[i].value[1]]),
                                 "sentiment_score",
                                 [i \in 1..n |-> sentiment_results[i].value[2]])
                      /\ pl_stage' = "ExtractKeywords"
                      /\ UNCHANGED pl_error
    /\ UNCHANGED <<input_csv, output_csv, sentiment_pipeline, sa_call, themeVars, kwVars, trVars, dqVars, lateVars>>

\* ExtractKeywords handing its result to Persist: the themes stage is skipped.
ExtractKeywords_skips_themes ==
    /\ pl_stage = "ExtractKeywords"
    /\ \E r \in extract_keywords(df["cleaned_text"], PipelineTopK) :
           IF r.kind = "raise"
           THEN /\ Abort("ExtractKeywords", r.exc)
                /\ UNCHANGED df
           ELSE /\ df' = WithColumn(df, "keywords", r.value)
                /\ pl_stage' = "Persist"
                /\ UNCHANGED pl_error
    /\ UNCHANGED <<input_csv, output_csv, sentVars, themeVars, kwVars, trVars, dqVars, lateVars>>

\* Lines 26-27: keywords = extract_keywords(cleaned_text.tolist(), top_k=5).
ExtractKeywords ==
    /\ pl_stage = "ExtractKeywords"
    /\ \E r \in extract_keywords(df["cleaned_text"], PipelineTopK) :
           IF r.kind = "raise"
           THEN /\ Abort("ExtractKeywords", r.exc)
                /\ UNCHANGED df
           ELSE /\ df' = WithColumn(df, "keywords", r.value)
                /\ pl_stage' = "AssignThemes"
                /\ UNCHANGED pl_error
    /\ UNCHANGED <<input_csv, output_csv, sentVars, themeVars, kwVars, trVars, dqVars, lateVars>>

\* Lines 29-30: themes = keywords.apply(assign_themes).
AssignThemes ==
    /\ pl_stage = "AssignThemes"
    /\ df' = WithColumn(df, "themes",
                 [i \in 1..Len(df["keywords"]) |-> assign_themes(df["keywords"][i])])
    /\ pl_stage' = "Persist"
    /\ UNCHANGED <<input_csv, output_csv, pl_error, sentVars, themeVars, kwVars, trVars, dqVars, lateVars>>

\* Lines 32-35: df.to_csv(output_csv, index=False).
Persist ==
    /\ pl_stage = "Persist"
    /\ output_csv' = [written |-> TRUE, table |-> df]
    /\ pl_stage' = "Done"
    /\ UNCHANGED <<input_csv, df, pl_error, sentVars, themeVars, kwVars, trVars, dqVars, lateVars>>

PlNext == Load \/ Normalize \/ Classify \/ ExtractKeywords \/ AssignThemes \/ Persist

(***************************************************************************)
(* Properties of run_pipeline.                                             *)
(***************************************************************************)
HasColumn(c) == c \in DOMAIN df

\* The table that read_csv makes of the input file.
InputTable == IF input_csv.header = <<>> THEN <<>> ELSE read_csv(input_csv)

\* The reviews of the input file (its first column), as read_csv types them.
InputRows == IF input_csv.header = <<>> THEN <<>> ELSE InputTable[input_csv.header[1]]

\* The cleaned text of input row i.
CleanedOf(i) == preprocess_reviews(InputRows[i])

\* C1: in run_pipeline a row whose classification fails (its cleaned text is
\* empty, or the model raises for it) is recorded with ("neutral", 0.0); the
\* run does not abort for it and goes on to Persist, and every other row
\* keeps its own sentiment result.
C1_Original ==
    /\ ~(/\ pl_stage = "Aborted"
         /\ pl_error.stage = "Classify"
         /\ sentiment_pipeline = "loaded")
    /\ (sentiment_pipeline = "loaded" /\ HasColumn("sentiment_label")) =>
           \A i \in 1..Len(InputRows) :
               ~ValidText(df["cleaned_text"][i]) =>
                   /\ df["sentiment_label"][i] = neutral
                   /\ df["sentiment_score"][i] = 0

\* What holds of every state of run_pipeline: each column of the table, and
\* of the written output, has the input's rows in the input's order, and the
\* cells of row i are computed from the review text of input row i: its
\* cleaned text is the cleaning of review i, the i-th model call got the
\* cleaned text i and its reply is sentiment i, keywords i are n-grams of
\* cleaned text i (some, when it has any), themes i are the themes of
\* keywords i.
RowsAligned ==
    /\ \A c \in DOMAIN df : Len(df[c]) = Len(InputRows)
    /\ HasColumn("review_text") => df["review_text"] = InputRows
    /\ HasColumn("cleaned_text") =>
           \A i \in 1..Len(InputRows) : df["cleaned_text"][i] = Str(CleanedOf(i))
    /\ HasColumn("sentiment_label") =>
           /\ Len(model_calls) = Len(InputRows)
           /\ \A i \in 1..Len(InputRows) :
                  /\ model_calls[i] = CleanedOf(i)
                  /\ df["sentiment_label"][i] = lower(model_replies[i].label)
                  /\ df["sentiment_score"][i] = model_replies[i].score
    /\ HasColumn("keywords") =>
           \A i \in 1..Len(InputRows) :
               LET grams == Range(Ngrams(Tokenize(CleanedOf(i))))
               IN  /\ Range(df["keywords"][i]) \subseteq grams
                   /\ grams # {} => df["keywords"][i] # <<>>
    /\ HasColumn("themes") =>
           \A i \in 1..Len(InputRows) :
               df["themes"][i] = assign_themes(df["keywords"][i])
    /\ output_csv.written =>
           /\ output_csv.table = df
           /\ \A c \in {"review_text", "cleaned_text", "sentiment_label",
                        "sentiment_score", "keywords", "themes"} :
                  /\ c \in DOMAIN output_csv.table
                  /\ Len(output_csv.table[c]) = Len(InputRows)

\* A row with empty cleaned text reaches Classify in a run of a loaded model.
EmptyCleanedRow ==
    /\ sentiment_pipeline = "loaded"
    /\ HasColumn("cleaned_text")
    /\ \E i \in 1..Len(InputRows) : ~ValidText(df["cleaned_text"][i])

\* C2 as claimed: at every stage of run_pipeline and in the written output
\* the rows are the input's rows in the input's order and the cleaned_text,
\* sentiment, keywords and themes of row i are computed from the review text
\* of input row i, also when some rows have empty cleaned text or fail
\* classification: Classify handles these rows too, so that the run leaves
\* it with a sentiment for every row.
C2_Original ==
    /\ RowsAligned
    /\ (EmptyCleanedRow /\ pl_stage # "Classify") =>
           /\ HasColumn("sentiment_label")
           /\ HasColumn("sentiment_score")

\* The stages of run_pipeline in the order of the claim, and the end of the run.
StageOrder ==
    <<"Load", "Normalize", "Classify", "ExtractKeywords", "AssignThemes", "Persist",
      "Done">>

StageIndex(stage) == CHOOSE k \in DOMAIN StageOrder : StageOrder[k] = stage

\* The columns a stage adds to the table when it finishes.
StageColumns(stage) ==
    IF stage = "Load" THEN {RenameColumn(h) : h \in Range(input_csv.header)}
    ELSE IF stage = "Normalize" THEN {"cleaned_text"}
    ELSE IF stage = "Classify" THEN {"sentiment_label", "sentiment_score"}
    ELSE IF stage = "ExtractKeywords" THEN {"keywords"}
    ELSE IF stage = "AssignThemes" THEN {"themes"}
    ELSE {}

\* The columns of the table when the stages before position k have finished.
ColumnsBefore(k) == UNION {StageColumns(StageOrder[j]) : j \in 1..(k - 1)}

\* A stage that is about to run finds the columns of all stages before it and
\* of no other, each over the whole batch; an aborted run stays as the failed
\* stage found it; the output exists only when the run is done, with the
\* themes of every row.
StagesSeeWholeBatch ==
    /\ pl_stage \in Range(StageOrder) \cup {"Aborted"}
    /\ LET at == IF pl_stage = "Aborted" THEN pl_error.stage ELSE pl_stage
       IN  /\ DOMAIN df = ColumnsBefore(StageIndex(at))
           /\ \A c \in DOMAIN df : Len(df[c]) = Len(InputRows)
    /\ output_csv.written <=> pl_stage = "Done"
    /\ output_csv.written =>
           /\ "themes" \in DOMAIN output_csv.table
           /\ Len(output_csv.table["themes"]) = Len(InputRows)
           /\ \A i \in 1..Len(InputRows) : output_csv.table["themes"][i] # <<>>

\* A step of the run ends the current stage and starts the next one of the
\* order, or aborts; only Persist writes the output; the table changes only
\* when a stage ends.
StageStep ==
    /\ pl_stage' # pl_stage =>
           /\ pl_stage \notin {"Done", "Aborted"}
           /\ \/ pl_stage' = "Aborted"
              \/ StageIndex(pl_stage') = StageIndex(pl_stage) + 1
    /\ output_csv' # output_csv => pl_stage = "Persist" /\ pl_stage' = "Done"
    /\ df' # df => pl_stage' # pl_stage /\ pl_stage' # "Aborted"

\* C12: run_pipeline executes its stages in the order Load, Normalize,
\* Classify, ExtractKeywords, AssignThemes, Persist without skipping or
\* repeating one; a stage starts only when the stage before it has finished
\* on the whole batch; the output is written only in Persist, when every row
\* has its themes.
C12_StagesInOrder == []StagesSeeWholeBatch /\ [][StageStep]_vars

\* C12's case: a run over two rows went through all six stages and wrote
\* its output.
C12_Witness ==
    /\ pl_stage = "Done"
    /\ Len(InputRows) = 2
    /\ output_csv.written
    /\ DOMAIN output_csv.table = ColumnsBefore(7)
    /\ Len(model_calls) = 2

\* C14: whenever run_pipeline completes, the output table has the columns
\* review_text, cleaned_text, sentiment_label, sentiment_score, keywords and
\* themes beside every other column of the input, each input column as it was
\* read, over all input rows, and every output row has a sentiment label
\* (positive or negative, never a null) and a non-empty list of themes.
C14_OutputComplete ==
    pl_stage = "Done" =>
        /\ output_csv.written
        /\ DOMAIN output_csv.table =
               {"review_text", "cleaned_text", "sentiment_label", "sentiment_score",
                "keywords", "themes"} \cup
               {RenameColumn(h) : h \in Range(input_csv.header)}
        /\ \A h \in Range(input_csv.header) :
               output_csv.table[RenameColumn(h)] = InputTable[h]
        /\ \A c \in DOMAIN output_csv.table :
               Len(output_csv.table[c]) = Len(InputRows)
        /\ \A i \in 1..Len(InputRows) :
               /\ output_csv.table["sentiment_label"][i] \in {positive, negative}
               /\ Len(output_csv.table["themes"][i]) >= 1

\* C14's case: a completed run over a file with a second column; its reviews
\* are an empty field and a number, read as the floats nan and 5.0 and
\* cleaned to "nan" and "50", and both rows get the theme Miscellaneous.
C14_Witness ==
    /\ pl_stage = "Done"
    /\ input_csv.header = <<"review", "rating">>
    /\ InputRows = <<PyNaN, PyFloat(<<"5">>)>>
    /\ output_csv.table["rating"] = <<PyInt(<<"1">>), PyInt(<<"2">>)>>
    /\ output_csv.table["keywords"] = << <<<<"n", "a", "n">>>>, <<<<"5", "0">>>> >>
    /\ output_csv.table["themes"] = << <<Miscellaneous>>, <<Miscellaneous>> >>

\* The input cannot be loaded: there is no file, or nothing to parse in it.
LoadFails == ~input_csv.exists \/ input_csv.header = <<>>

\* C13: if Load fails (missing or malformed input) or the classifier model is
\* unavailable, run_pipeline aborts by raising to its caller, runs no later
\* stage and writes no output; the exception that reaches the caller for the
\* unavailable model is the unavailability condition (RuntimeError), not the
\* input-validation failure (ValueError).
C13_Original ==
    /\ (LoadFails /\ pl_stage # "Load") =>
           /\ pl_stage = "Aborted"
           /\ pl_error.stage = "Load"
           /\ df = <<>>
           /\ ~output_csv.written
    /\ sentiment_pipeline = "None" =>
           /\ pl_stage \in {"Load", "Normalize", "Classify", "Aborted"}
           /\ ~output_csv.written
           /\ model_calls = <<>>
           /\ (pl_stage = "Aborted" /\ pl_error.stage = "Classify") =>
                  pl_error.exc = "RuntimeError"

(***************************************************************************)
(* data/data_quality_utils.py: translation of the non-English texts.       *)
(*                                                                         *)
(* translate_non_english_text creates one translate_to_english coroutine   *)
(* per row, runs them under asyncio.gather and assigns the gathered list   *)
(* to the column.  A coroutine runs up to its await of the translator; the *)
(* awaited calls finish in any order.                                      *)
(***************************************************************************)
\* What langdetect.detect does on a text: a language code, or
\* LangDetectException.  The detector is randomised on short texts, so each
\* outcome is possible for each text.
DetectOutcomes == {"en", "es", "LangDetectException"}

\* What the awaited translator call does.
TranslateOutcomes == {"translated", "raise"}

\* translated.text for a text: the external service, by a marker put in front
\* of the text, so that a translation shows which text it is of.
TranslationOf(text) == <<"[", "e", "n", "]">> \o text

NewTask(cell) ==
    [text |-> cell.v, pc |-> "pending", lang |-> "-", how |-> "-", result |-> <<>>]

\* translate_to_english up to its await (lines 389-396) or, without one, to
\* its return (lines 392, 402).
translate_to_english_start(task, detected) ==
    IF detected = "LangDetectException"
    THEN [task EXCEPT !.pc = "done", !.how = "undetected", !.result = task.text]
    ELSE IF detected # "en"
    THEN [task EXCEPT !.pc = "awaiting", !.lang = detected]
    ELSE [task EXCEPT !.pc = "done", !.lang = detected, !.how = "english",
                      !.result = task.text]

\* translate_to_english without its inner try/except: the translator's
\* exception leaves the coroutine.
translate_to_english_resume_uncaught(task, outcome) ==
    IF outcome = "raise"
    THEN [task EXCEPT !.pc = "raised", !.how = "failed"]
    ELSE [task EXCEPT !.pc = "done", !.how = "translated",
                      !.result = TranslationOf(task.text)]

\* translate_to_english from the end of its await on (lines 396-400).
translate_to_english_resume(task, outcome) ==
    IF outcome = "raise"
    THEN [task EXCEPT !.pc = "done", !.how = "failed", !.result = task.text]
    ELSE [task EXCEPT !.pc = "done", !.how = "translated",
                      !.result = TranslationOf(task.text)]

\* The results in the order in which the coroutines finished.
gather_results_in_completion_order(tasks, finished) ==
    [k \in 1..Len(tasks) |-> Str(tasks[finished[k]].result)]

\* The list asyncio.gather returns: the results in the order of its arguments.
gather_results(tasks, finished) ==
    [i \in 1..Len(tasks) |-> Str(tasks[i].result)]

\* gather returning as soon as one coroutine has finished.
gather_done_first_completed(tasks) ==
    \E i \in DOMAIN tasks : tasks[i].pc = "done"

\* `await asyncio.gather(...)` is over: every coroutine has returned.
gather_done(tasks) ==
    \A i \in DOMAIN tasks : tasks[i].pc = "done"

\* The most rows of the table held by DataQualityUtils.
MaxBatch == 3

TextCells ==
    { Str(<<"H", "o", "l", "a">>), Str(<<"H", "e", "l", "l", "o">>), PyNaN }

TrInit ==
    /\ \E n \in 0..MaxBatch : \E texts \in [1..n -> TextCells] :
           tr_df = [c \in {"text", "rating"} |->
                        IF c = "text" THEN texts
                        ELSE [i \in 1..n |-> PyInt(<<DigitChars[i + 1]>>)]]
    /\ tr_before = <<>>
    /\ tr_pc = "idle"
    /\ tr_tasks = <<>>
    /\ tr_finished = <<>>
    /\ tr_error = "-"

TrIdle ==
    /\ tr_df = <<>>
    /\ tr_before = <<>>
    /\ tr_pc = "off"
    /\ tr_tasks = <<>>
    /\ tr_finished = <<>>
    /\ tr_error = "-"

trOthers == <<sentVars, themeVars, kwVars, plVars, dqVars, lateVars>>

\* translate_non_english_text(text_column) up to asyncio.run: the column
\* check, and the coroutines for str(t) of every cell t, in row order.
CallTranslateNonEnglishText ==
    /\ tr_pc = "idle"
    /\ \E text_column \in {"text", "review"} :
          IF text_column \notin DOMAIN tr_df
          THEN /\ tr_pc' = "raised"
               /\ tr_error' = "ValueError"
               /\ UNCHANGED <<tr_before, tr_tasks>>
          ELSE /\ tr_pc' = "gathering"
               /\ tr_before' = tr_df
               /\ tr_tasks' = [i \in 1..Len(tr_df[text_column]) |->
                                  NewTask(tr_df[text_column][i])]
               /\ UNCHANGED tr_error
    /\ UNCHANGED <<tr_df, tr_finished, trOthers>>

\* The event loop runs the next coroutine, in the order gather scheduled them.
TaskStart ==
    /\ tr_pc = "gathering"
    /\ \E i \in DOMAIN tr_tasks :
          /\ tr_tasks[i].pc = "pending"
          /\ \A j \in 1..(i - 1) : tr_tasks[j].pc # "pending"
          /\ \E detected \in DetectOutcomes :
                LET task == translate_to_english_start(tr_tasks[i], detected)
                IN  /\ tr_tasks' = [tr_tasks EXCEPT ![i] = task]
                    /\ tr_finished' = IF task.pc = "awaiting" THEN tr_finished
                                      ELSE Append(tr_finished, i)
    /\ UNCHANGED <<tr_df, tr_before, tr_pc, tr_error, trOthers>>

\* An awaited translator call finishes, and its coroutine runs to its end.
TranslationCompletes ==
    /\ tr_pc = "gathering"
    /\ \E i \in DOMAIN tr_tasks :
          /\ tr_tasks[i].pc = "awaiting"
          /\ \E outcome \in TranslateOutcomes :
                tr_tasks' = [tr_tasks EXCEPT
                                ![i] = translate_to_english_resume(tr_tasks[i], outcome)]
          /\ tr_finished' = Append(tr_finished, i)
    /\ UNCHANGED <<tr_df, tr_before, tr_pc, tr_error, trOthers>>

\* gather ends: with the first exception of a coroutine, which asyncio.run
\* passes on to the caller, or with all results, which line 419 assigns.
GatherFinish ==
    /\ tr_pc = "gathering"
    /\ IF \E i \in DOMAIN tr_tasks : tr_tasks[i].pc = "raised"
       THEN /\ tr_pc' = "raised"
            /\ tr_error' = "Exception"
            /\ UNCHANGED tr_df
       ELSE /\ gather_done(tr_tasks)
            /\ tr_df' = WithColumn(tr_df, "text", gather_results(tr_tasks, tr_finished))
            /\ tr_pc' = "returned"
            /\ UNCHANGED tr_error
    /\ UNCHANGED <<tr_before, tr_tasks, tr_finished, trOthers>>

TrNext ==
    CallTranslateNonEnglishText \/ TaskStart \/ TranslationCompletes \/ GatherFinish

\* str(t) of the cell that row i held when the batch call began.
OriginalText(i) == tr_before["text"][i].v

\* C9: when the translation call raises for one row, that row keeps its
\* original text, every other row that needs translation is still
\* translated, and no exception leaves the batch call.
C9_FailureIsolated ==
    /\ tr_pc = "raised" => tr_error = "ValueError" /\ tr_tasks = <<>>
    /\ tr_pc = "returned" =>
           \A i \in DOMAIN tr_tasks :
               /\ tr_tasks[i].how = "failed" => tr_df["text"][i].v = OriginalText(i)
               /\ tr_tasks[i].how = "translated" =>
                      tr_df["text"][i].v = TranslationOf(OriginalText(i))
               /\ tr_tasks[i].lang \notin {"en", "-"} =>
                      tr_tasks[i].how \in {"failed", "translated"}

\* C9's case: of three rows the second one's translation raised, the first and
\* the third are translated, and the call returned.
C9_Witness ==
    /\ tr_pc = "returned"
    /\ Len(tr_tasks) = 3
    /\ tr_tasks[1].how = "translated"
    /\ tr_tasks[2].how = "failed"
    /\ tr_tasks[3].how = "translated"
    /\ tr_df["text"][2] = tr_before["text"][2]
    /\ tr_df["text"][1] # tr_before["text"][1]
    /\ tr_df["text"][3] # tr_before["text"][3]

\* C10: after translate_non_english_text has returned, row i of the text column
\* holds the result obtained for row i's original text (its translation, or
\* the text itself when it is English, undetected or its translation failed),
\* in whatever order the coroutines finished.
C10_ResultsInRowOrder ==
    tr_pc = "returned" =>
        /\ Len(tr_df["text"]) = Len(tr_before["text"])
        /\ \A i \in 1..Len(tr_before["text"]) :
               tr_df["text"][i] =
                   Str(IF tr_tasks[i].how = "translated"
                       THEN TranslationOf(OriginalText(i))
                       ELSE OriginalText(i))

\* C10's case: three different results, the coroutines having finished in the
\* order 3, 1, 2.
C10_Witness ==
    /\ tr_pc = "returned"
    /\ tr_finished = <<3, 1, 2>>
    /\ tr_before["text"] = << Str(<<"H", "o", "l", "a">>), PyNaN,
                              Str(<<"H", "e", "l", "l", "o">>) >>
    /\ tr_tasks[1].how = "translated"
    /\ tr_tasks[2].how = "translated"
    /\ tr_tasks[3].how = "undetected"

\* C11: translate_non_english_text issues one translate_to_english coroutine
\* per row, for str() of the row's cell, and the held table is written only
\* after every coroutine of the batch has finished: while the batch runs the
\* table is the table the call began with, and once the call has returned
\* every coroutine is done.
C11_NoPartialResults ==
    /\ tr_pc \in {"gathering", "returned"} =>
           /\ Len(tr_tasks) = Len(tr_before["text"])
           /\ \A i \in DOMAIN tr_tasks : tr_tasks[i].text = OriginalText(i)
    /\ tr_pc = "gathering" => tr_df = tr_before
    /\ tr_pc = "returned" =>
           /\ \A i \in DOMAIN tr_tasks : tr_tasks[i].pc = "done"
           /\ tr_df["rating"] = tr_before["rating"]

\* C11's case: mid-batch, the first row's translation has come back and the
\* second row's is still awaited; the held table shows neither.
C11_Witness ==
    /\ tr_pc = "gathering"
    /\ Len(tr_tasks) >= 2
    /\ tr_tasks[1].how = "translated"
    /\ tr_tasks[1].result # tr_tasks[1].text
    /\ tr_tasks[2].pc = "awaiting"
    /\ tr_df = tr_before

(***************************************************************************)
(* data/data_quality_utils.py: filter_english_text and                     *)
(* replace_emojis_with_text, called on the table that DataQualityUtils     *)
(* holds (self.df: tr_df).                                                 *)
(***************************************************************************)
\* is_english with the detector's failure counted as English.
is_english_failure_kept(detected) ==
    IF detected = "LangDetectException" THEN TRUE ELSE detected = "en"

\* is_english(text), lines 334-338, for what detect(text) did.
is_english(detected) ==
    IF detected = "LangDetectException" THEN FALSE ELSE detected = "en"

\* self.df.loc[mask]: the rows whose mask entry is True, in the table's order,
\* in every column.
RowsWhere(frame, mask) ==
    LET Kept(i) == mask[i]
        rows == SelectSeq([i \in DOMAIN mask |-> i], Kept)
    IN  [c \in DOMAIN frame |-> [k \in 1..Len(rows) |-> frame[c][rows[k]]]]

\* filter_english_text(text_column) on frame, given the detector's answers
\* for str() of the cells of the column.
filter_english_text(frame, detected) ==
    LET mask == [i \in DOMAIN detected |-> is_english(detected[i])]
        filtered_df == RowsWhere(frame, mask)
    IN  filtered_df

\* Emoji glyphs, one code point each, named by their code point.
GrinningFace == "U+1F600"

Rocket == "U+1F680"

\* The glyphs the emoji library knows, as far as the texts of the model go.
EmojiGlyphs == {GrinningFace, Rocket}

happy == <<"h", "a", "p", "p", "y">>

\* utils.emoji_map.DEFAULT_EMOJI_MAP: the known glyphs and sentiment-bearing
\* words for them, as (glyph, word) pairs in the order of the dict.
DEFAULT_EMOJI_MAP == << <<<<GrinningFace>>, happy>> >>

\* str.replace(old, new): the occurrences of old from the left, not
\* overlapping, from position i on.
RECURSIVE ReplaceFrom(_, _, _, _)
ReplaceFrom(s, i, old, new) ==
    IF i > Len(s) THEN <<>>
    ELSE IF i + Len(old) - 1 <= Len(s) /\ SubSeq(s, i, i + Len(old) - 1) = old
    THEN new \o ReplaceFrom(s, i + Len(old), old, new)
    ELSE <<s[i]>> \o ReplaceFrom(s, i + 1, old, new)

\* new.join(s), with new before the first and after the last character too:
\* what str.replace does for an empty old.
RECURSIVE Interleave(_, _)
Interleave(s, new) ==
    IF s = <<>> THEN new ELSE new \o <<Head(s)>> \o Interleave(Tail(s), new)

\* text.replace(old, new)
Replace(s, old, new) ==
    IF old = <<>> THEN Interleave(s, new) ELSE ReplaceFrom(s, 1, old, new)

\* The loop of lines 376-377: one replace per item of the map, in its order.
RECURSIVE ReplaceMapped(_, _)
ReplaceMapped(text, items) ==
    IF items = <<>> THEN text
    ELSE ReplaceMapped(Replace(text, Head(items)[1], Head(items)[2]), Tail(items))

\* emoji.replace_emoji(text, replace=""): every emoji glyph removed.
replace_emoji(text) ==
    LET NotEmoji(c) == c \notin EmojiGlyphs
    IN  SelectSeq(text, NotEmoji)

\* re.sub(r"\s+", " ", text): every run of whitespace becomes one space.
RECURSIVE CollapseWhitespace(_)
CollapseWhitespace(text) ==
    IF text = <<>> THEN <<>>
    ELSE IF Head(text) \in Whitespace
    THEN IF Len(text) >= 2 /\ text[2] \in Whitespace
         THEN CollapseWhitespace(Tail(text))
         ELSE <<" ">> \o CollapseWhitespace(Tail(text))
    ELSE <<Head(text)>> \o CollapseWhitespace(Tail(text))

\* replace_emojis without line 378: the glyphs outside the map stay.
replace_emojis_mapped_only(text, emoji_map_safe) ==
    IF ~IsStr(text) THEN text
    ELSE Str(strip(CollapseWhitespace(ReplaceMapped(text.v, emoji_map_safe))))

\* replace_emojis(text), lines 373-380, for the map in use.
replace_emojis(text, emoji_map_safe) ==
    IF ~IsStr(text) THEN text
    ELSE LET mapped == ReplaceMapped(text.v, emoji_map_safe)
             without == replace_emoji(mapped)
         IN  Str(strip(CollapseWhitespace(without)))

\* emoji_map=None
NoMap == [given |-> FALSE, items |-> <<>>]

\* The emoji_map arguments tried: none, and a map of the caller's that knows
\* another glyph than the default map.
EmojiMaps ==
    { NoMap,
      [given |-> TRUE, items |-> << <<<<Rocket>>, <<" ", "f", "a", "s", "t">>>> >>] }

NoDqCall == [method |-> "-", text_column |-> "-", detected |-> <<>>, emoji_map |-> NoMap]

DqIdle == dq_call = NoDqCall

\* The cells of the text column of the held table.
DqCells ==
    { Str(<<"H", "o", "l", "a">>),
      Str(<<"H", "i", " ", GrinningFace>>),
      Str(<<Rocket, " ", "\n", "o", "k", GrinningFace, " ">>),
      Str(<<Rocket>>),
      PyNaN }

\* A row of frame, and the number of its rows.
RowOf(frame, i) == [c \in DOMAIN frame |-> frame[c][i]]

RowCount(frame) == Len(frame[CHOOSE c \in DOMAIN frame : TRUE])

\* self.df.drop_duplicates(keep=keep): of the rows that are equal in every
\* column the first stays, or the last, or none (keep=False).
drop_duplicate_rows(frame, keep) ==
    LET n == RowCount(frame)
        Same(i, j) == RowOf(frame, i) = RowOf(frame, j)
    IN  RowsWhere(frame,
            [i \in 1..n |->
                IF keep = "first" THEN \A j \in 1..(i - 1) : ~Same(i, j)
                ELSE IF keep = "last" THEN \A j \in (i + 1)..n : ~Same(i, j)
                ELSE \A j \in 1..n : j # i => ~Same(i, j)])

\* self.df.dropna(subset=columns): the rows with a missing cell in one of the
\* columns go.
dropna_subset(frame, columns) ==
    RowsWhere(frame,
        [i \in 1..RowCount(frame) |-> \A c \in Range(columns) : ~IsNa(frame[c][i])])

\* drop_rows_with_missing_in_columns(columns), lines 295-318: the names that
\* are no columns are ignored; without a column left nothing is dropped.
drop_rows_with_missing_in_columns(frame, columns) ==
    LET Known(col) == col \in DOMAIN frame
        valid == SelectSeq(columns, Known)
    IN  IF valid = <<>> THEN frame ELSE dropna_subset(frame, valid)

\* DataQualityUtils(df): a table with a text column and a second column,
\* which tells the rows apart or is the same in every row.
DqInit ==
    /\ \E n \in 0..MaxBatch : \E texts \in [1..n -> DqCells] :
           \E ratings \in {[i \in 1..n |-> PyInt(<<DigitChars[i + 1]>>)],
                            [i \in 1..n |-> PyInt(<<"5">>)]} :
               tr_df = [c \in {"text", "rating"} |->
                            IF c = "text" THEN texts ELSE ratings]
    /\ tr_before = <<>>
    /\ tr_pc = "idle"
    /\ tr_tasks = <<>>
    /\ tr_finished = <<>>
    /\ tr_error = "-"
    /\ dq_call = NoDqCall

dqOthers == <<sentVars, themeVars, kwVars, plVars, lateVars>>

\* filter_english_text(text_column), lines 331-348.
CallFilterEnglishText ==
    /\ tr_pc = "idle"
    /\ \E text_column \in {"text", "review"} :
          IF text_column \notin DOMAIN tr_df
          THEN /\ tr_pc' = "raised"
               /\ tr_error' = "ValueError"
               /\ dq_call' = [method |-> "filter_english_text",
                              text_column |-> text_column, detected |-> <<>>,
                              emoji_map |-> NoMap]
               /\ UNCHANGED <<tr_df, tr_before>>
          ELSE \E detected \in [1..Len(tr_df[text_column]) -> DetectOutcomes] :
                  /\ tr_df' = filter_english_text(tr_df, detected)
                  /\ tr_before' = tr_df
                  /\ tr_pc' = "returned"
                  /\ dq_call' = [method |-> "filter_english_text",
                                 text_column |-> text_column, detected |-> detected,
                                 emoji_map |-> NoMap]
                  /\ UNCHANGED tr_error
    /\ UNCHANGED <<tr_tasks, tr_finished, dqOthers>>

\* replace_emojis_with_text(text_column, emoji_map), lines 365-386.
CallReplaceEmojisWithText ==
    /\ tr_pc = "idle"
    /\ \E text_column \in {"text", "review"}, emoji_map \in EmojiMaps :
          /\ dq_call' = [method |-> "replace_emojis_with_text",
                         text_column |-> text_column, detected |-> <<>>,
                         emoji_map |-> emoji_map]
          /\ IF text_column \notin DOMAIN tr_df
             THEN /\ tr_pc' = "raised"
                  /\ tr_error' = "ValueError"
                  /\ UNCHANGED <<tr_df, tr_before>>
             ELSE LET emoji_map_safe == IF emoji_map.given THEN emoji_map.items
                                       ELSE DEFAULT_EMOJI_MAP
                  IN  /\ tr_df' = WithColumn(tr_df, text_column,
                                     [i \in 1..Len(tr_df[text_column]) |->
                                         replace_emojis(tr_df[text_column][i],
                                                        emoji_map_safe)])
                      /\ tr_before' = tr_df
                      /\ tr_pc' = "returned"
                      /\ UNCHANGED tr_error
    /\ UNCHANGED <<tr_tasks, tr_finished, dqOthers>>

\* drop_duplicates(keep, inplace), lines 270-282; the object stays ready for
\* the next call.
CallDropDuplicates ==
    /\ tr_pc = "idle"
    /\ \E keep \in {"first", "last", "False"}, inplace \in BOOLEAN :
          /\ dq_call' = [NoDqCall EXCEPT !.method = "drop_duplicates"]
          /\ tr_df' = IF inplace THEN drop_duplicate_rows(tr_df, keep) ELSE tr_df
    /\ tr_before' = tr_df
    /\ UNCHANGED <<tr_pc, tr_error, tr_tasks, tr_finished, dqOthers>>

\* drop_rows_with_missing_in_columns(columns), lines 295-318; the object
\* stays ready for the next call.
CallDropRowsWithMissingInColumns ==
    /\ tr_pc = "idle"
    /\ \E columns \in {<<>>, <<"text">>, <<"review">>, <<"review", "text", "rating">>} :
          /\ dq_call' = [NoDqCall EXCEPT !.method = "drop_rows_with_missing_in_columns"]
          /\ tr_df' = drop_rows_with_missing_in_columns(tr_df, columns)
    /\ tr_before' = tr_df
    /\ UNCHANGED <<tr_pc, tr_error, tr_tasks, tr_finished, dqOthers>>

DqNext ==
    \/ CallFilterEnglishText
    \/ CallReplaceEmojisWithText
    \/ CallDropDuplicates
    \/ CallDropRowsWithMissingInColumns

\* The rows of the table before the call that the detector found English.
DetectedEnglish == {i \in DOMAIN dq_call.detected : dq_call.detected[i] = "en"}

\* C19: filter_english_text keeps exactly the rows whose text is detected as
\* English, in their original relative order and with every column's cells
\* unchanged; a row whose detection fails is dropped, and no error is raised
\* for it (the call raises only for a column the table does not have).
C19_KeepsDetectedEnglishRows ==
    dq_call.method = "filter_english_text" =>
        /\ tr_pc = "raised" <=> dq_call.text_column \notin DOMAIN tr_df
        /\ tr_pc = "returned" =>
               /\ DOMAIN tr_df = DOMAIN tr_before
               /\ \A c \in DOMAIN tr_df :
                      /\ Len(tr_df[c]) = Cardinality(DetectedEnglish)
                      /\ \A i \in DetectedEnglish :
                             tr_df[c][Cardinality({j \in DetectedEnglish : j <= i})]
                                 = tr_before[c][i]

\* C19's case: of three rows the detector failed on the second and found the
\* first Spanish; the third row alone is left.
C19_Witness ==
    /\ dq_call.method = "filter_english_text"
    /\ tr_pc = "returned"
    /\ dq_call.detected = <<"es", "LangDetectException", "en">>
    /\ tr_df["rating"] = <<PyInt(<<"3">>)>>
    /\ tr_df["text"] = <<tr_before["text"][3]>>

\* The map a call of replace_emojis_with_text is to use: the caller's if
\* given, else the default map.
MapInUse ==
    IF dq_call.emoji_map.given THEN dq_call.emoji_map.items ELSE DEFAULT_EMOJI_MAP

\* The word the map has for glyph c, <<>> when it has none.
WordFor(c, items) ==
    IF \E n \in DOMAIN items : items[n][1] = <<c>>
    THEN items[CHOOSE n \in DOMAIN items : items[n][1] = <<c>>][2]
    ELSE <<>>

\* text read character by character: a glyph gives its word (nothing when the
\* map has none), whitespace gives nothing, any other character itself.
\* Read once more with the empty map, the whitespace of the words goes too.
RECURSIVE Spelled(_, _)
Spelled(text, items) ==
    IF text = <<>> THEN <<>>
    ELSE (IF Head(text) \in EmojiGlyphs THEN WordFor(Head(text), items)
          ELSE IF Head(text) \in Whitespace THEN <<>>
          ELSE <<Head(text)>>) \o Spelled(Tail(text), items)

\* C20: replace_emojis_with_text replaces each mapped emoji of a string cell
\* by its word in the caller's map if one is given, else in the default map,
\* removes every other emoji glyph and collapses whitespace (single spaces,
\* none at the ends), so that no string cell of the column holds an emoji
\* afterwards; the cells that are not strings, the number of rows and the
\* other columns are unchanged.
C20_NoEmojiLeft ==
    (dq_call.method = "replace_emojis_with_text" /\ tr_pc = "returned") =>
        /\ DOMAIN tr_df = DOMAIN tr_before
        /\ tr_df["rating"] = tr_before["rating"]
        /\ Len(tr_df["text"]) = Len(tr_before["text"])
        /\ \A i \in DOMAIN tr_before["text"] :
               LET before == tr_before["text"][i]
                   after == tr_df["text"][i]
               IN  IF ~IsStr(before) THEN after = before
                   ELSE /\ IsStr(after)
                        /\ \A k \in DOMAIN after.v : after.v[k] \notin EmojiGlyphs
                        /\ \A k \in DOMAIN after.v :
                               after.v[k] \in Whitespace =>
                                   /\ after.v[k] = " "
                                   /\ k \notin {1, Len(after.v)}
                                   /\ after.v[k + 1] \notin Whitespace
                        /\ Spelled(after.v, <<>>) =
                               Spelled(Spelled(before.v, MapInUse), <<>>)

\* C20's case: under the default map a cell with a mapped and an unmapped
\* glyph and a run of whitespace became "okhappy", beside a NaN cell.
C20_Witness ==
    /\ dq_call.method = "replace_emojis_with_text"
    /\ tr_pc = "returned"
    /\ ~dq_call.emoji_map.given
    /\ tr_before["text"] =
           << Str(<<Rocket, " ", "\n", "o", "k", GrinningFace, " ">>), PyNaN >>
    /\ tr_df["text"] = << Str(<<"o", "k">> \o happy), PyNaN >>

(***************************************************************************)
(* data/data_quality_utils.py: the methods that change the columns of the  *)
(* held table.  A dict is the sequence of its (key, value) items in        *)
(* insertion order; self.df.columns is the sequence of the columns, which  *)
(* pandas allows to carry equal names.  A column is its <<"n", "a", "m", "e">>, the name it  *)
(* had when the table was constructed (origin), and its cells.             *)
(***************************************************************************)
\* k in d
HasKey(items, k) == \E n \in DOMAIN items : items[n][1] = k

\* d[k]
ItemsGet(items, k) == items[CHOOSE n \in DOMAIN items : items[n][1] = k][2]

\* col in self.df.columns
InColumns(columns, col) == \E i \in DOMAIN columns : columns[i].name = col

\* list(self.df.columns)
ColumnNames(columns) == [i \in DOMAIN columns |-> columns[i].name]

\* name.strip().lower().replace(" ", "_")
CleanName(name) ==
    LET lowered == lower(strip(name))
    IN  [k \in DOMAIN lowered |-> IF lowered[k] = " " THEN "_" ELSE lowered[k]]

\* clean_column_names(), lines 29-32.
clean_column_names(columns) ==
    [i \in DOMAIN columns |-> [columns[i] EXCEPT !.name = CleanName(@)]]

UnnamedZero == <<"u", "n", "n", "a", "m", "e", "d", ":", "_", "0">>

\* self.df.drop(columns=labels): every column of one of the labels goes.
drop(columns, labels) ==
    LET Kept(c) == c.name \notin labels
    IN  SelectSeq(columns, Kept)

\* self.df.loc[:, ~self.df.columns.duplicated()]: of the columns of one name
\* the first stays.
WithoutRepeatedNames(columns) ==
    LET first == {i \in DOMAIN columns :
                     \A j \in 1..(i - 1) : columns[j].name # columns[i].name}
        Positions == SelectSeq([i \in DOMAIN columns |-> i], LAMBDA i : i \in first)
    IN  [k \in DOMAIN Positions |-> columns[Positions[k]]]

\* drop_redundant_columns(), lines 38-41.
drop_redundant_columns(columns) ==
    WithoutRepeatedNames(IF InColumns(columns, UnnamedZero)
                         THEN drop(columns, {UnnamedZero})
                         ELSE columns)

\* clean_dataframe(), lines 47-49.
clean_dataframe(columns) == drop_redundant_columns(clean_column_names(columns))

\* drop_empty_columns(), lines 146-152: the names of the columns whose cells
\* are all missing, and every column of such a name dropped.
drop_empty_columns(columns) ==
    LET empty_cols == {columns[i].name : i \in
                          {j \in DOMAIN columns :
                              \A r \in DOMAIN columns[j].cells : IsNa(columns[j].cells[r])}}
    IN  IF empty_cols # {} THEN drop(columns, empty_cols) ELSE columns

\* drop_columns(columns), lines 164-177: the names that are columns are
\* dropped, the others only reported.
drop_columns(columns, names) ==
    LET existing_cols == {names[k] : k \in {n \in DOMAIN names : InColumns(columns, names[n])}}
    IN  IF existing_cols # {} THEN drop(columns, existing_cols) ELSE columns

\* The texts that line 122 replaces by pd.NA.
BadDateTexts == {<<>>, <<"n", "a", "n">>, <<"n", "u", "l", "l">>, <<"N", "o", "n", "e">>, <<"N", "a", "T">>, <<"N", "/", "A">>}

IsDigits(s) == \A k \in DOMAIN s : s[k] \in Range(DigitChars)

\* A date as YYYY-MM-DD.
IsIsoDateText(s) ==
    /\ Len(s) = 10
    /\ s[5] = "-" /\ s[8] = "-"
    /\ IsDigits(SubSeq(s, 1, 4)) /\ IsDigits(SubSeq(s, 6, 7)) /\ IsDigits(SubSeq(s, 9, 10))

MidnightUtc == <<" ", "0", "0", ":", "0", "0", ":", "0", "0", "+", "0", "0", ":", "0", "0">>

\* str() of a Timestamp at midnight UTC.
IsTimestampText(s) ==
    Len(s) = 25 /\ IsIsoDateText(SubSeq(s, 1, 10)) /\ SubSeq(s, 11, 25) = MidnightUtc

\* The Timestamp of midnight UTC of a date.
Timestamp(date) == [t |-> "Timestamp", v |-> date \o MidnightUtc]

\* Lines 118-123 on one cell: str(cell).strip(), the bad values replaced.
DateText(cell) ==
    LET s == strip(cell.v)
    IN  IF s \in BadDateTexts THEN NA ELSE Str(s)

\* pd.to_datetime(..., utc=True) on one cell of DateText, for the texts of the
\* model: a date, the text of a Timestamp, or a word that is no date.
IsDate(cell) == IsStr(cell) /\ (IsIsoDateText(cell.v) \/ IsTimestampText(cell.v))

ToDatetime(cell) ==
    IF IsDate(cell) THEN Timestamp(SubSeq(cell.v, 1, 10)) ELSE NaT

ConvertReturn(columns) == [exc |-> "-", columns |-> columns]

ConvertRaise(exc, columns) == [exc |-> exc, columns |-> columns]

\* The loop of lines 117-139 over the names cols, on the table columns.  Two
\* columns of one name make self.df[col] a table, which has no .str
\* (AttributeError); with errors="raise" a cell that is no date raises
\* ValueError after lines 118-123 have rewritten the column.
RECURSIVE ConvertLoop(_, _, _)
ConvertLoop(columns, cols, errors) ==
    IF cols = <<>> THEN ConvertReturn(columns)
    ELSE LET col == Head(cols)
             named == {i \in DOMAIN columns : columns[i].name = col}
         IN  IF named = {} THEN ConvertLoop(columns, Tail(cols), errors)
             ELSE IF Cardinality(named) > 1 THEN ConvertRaise("AttributeError", columns)
             ELSE LET i == CHOOSE j \in named : TRUE
                      texts == [r \in DOMAIN columns[i].cells |->
                                   DateText(columns[i].cells[r])]
                      failing == \E r \in DOMAIN texts :
                                     ~IsNa(texts[r]) /\ ~IsDate(texts[r])
                  IN  IF errors = "raise" /\ failing
                      THEN ConvertRaise("ValueError",
                                        [columns EXCEPT ![i].cells = texts])
                      ELSE ConvertLoop(
                               [columns EXCEPT ![i].cells =
                                   [r \in DOMAIN texts |-> ToDatetime(texts[r])]],
                               Tail(cols), errors)

NoColumns == <<"None">>

\* convert_columns_to_datetime(columns, errors), lines 110-139; without
\* columns, the names that hold "date" or "time".
convert_columns_to_datetime(columns, names, errors) ==
    LET IsDateName(name) == Contains(lower(name), <<"d", "a", "t", "e">>) \/ Contains(lower(name), <<"t", "i", "m", "e">>)
        cols == IF names = NoColumns THEN SelectSeq(ColumnNames(columns), IsDateName)
                ELSE names
    IN  ConvertLoop(columns, cols, errors)

\* self.df.rename(columns=items, inplace=True): every label that is a key is
\* replaced by its value, all labels at once.
rename(columns, items) ==
    [i \in DOMAIN columns |->
        [columns[i] EXCEPT !.name = IF HasKey(items, @) THEN ItemsGet(items, @) ELSE @]]

\* self.df[labels]: for each label in turn, every column of that <<"n", "a", "m", "e">>, in the
\* order of the columns.
RECURSIVE SelectColumns(_, _)
SelectColumns(columns, labels) ==
    IF labels = <<>> THEN <<>>
    ELSE LET Named(c) == c.name = Head(labels)
         IN  SelectSeq(columns, Named) \o SelectColumns(columns, Tail(labels))

\* {k: v for k, v in rename_map.items() if k in self.df.columns}
ExistingKeys(columns, rename_map) ==
    LET Known(item) == InColumns(columns, item[1])
    IN  SelectSeq(rename_map, Known)

\* rename_columns(rename_map), lines 190-201.
rename_columns(columns, rename_map) ==
    LET rename_applied == ExistingKeys(columns, rename_map)
    IN  rename(columns, rename_applied)

\* rename_and_prioritize_columns(rename_map), lines 217-236.
rename_and_prioritize_columns(columns, rename_map) ==
    LET valid_renames == ExistingKeys(columns, rename_map)
        renamed == IF valid_renames # <<>> THEN rename(columns, valid_renames)
                   ELSE columns
        renamed_columns_order == [k \in DOMAIN valid_renames |-> valid_renames[k][2]]
        NotRenamed(col) == col \notin Range(renamed_columns_order)
        rest == SelectSeq(ColumnNames(renamed), NotRenamed)
    IN  SelectColumns(renamed, renamed_columns_order \o rest)

\* The most columns of the table, and the most items of a rename_map.
MaxColumns == 3

MaxMapItems == 2

\* The columns of the tables as constructed, each with the cell of its one
\* row: two names that clean_column_names makes equal, a column without a
\* value, a date, and the index column of a file written with its index.
RawColumns ==
    { [name |-> <<"N", "a", "m", "e">>, cells |-> <<Str(<<"A", "l", "i", "c", "e">>)>>],
      [name |-> <<"n", "a", "m", "e", " ">>, cells |-> <<Str(<<"B", "o", "b">>)>>],
      [name |-> <<"A", "g", "e">>, cells |-> <<PyNaN>>],
      [name |-> <<"J", "o", "i", "n", " ", "D", "a", "t", "e">>, cells |-> <<Str(<<"2", "0", "2", "1", "-", "0", "1", "-", "0", "1">>)>>],
      [name |-> <<"U", "n", "n", "a", "m", "e", "d", ":", " ", "0">>, cells |-> <<PyInt(<<"1">>)>>] }

\* The keys and the new names tried: a key that is no column, and new names
\* that are new, equal to one another or equal to the name of another column.
RenameKeys == {<<"a", "g", "e">>, <<"n", "a", "m", "e">>, <<"n", "o", "n", "_", "e", "x", "i", "s", "t", "e", "n", "t">>}

RenameValues == {<<"y", "e", "a", "r", "s", "_", "o", "l", "d">>, <<"f", "u", "l", "l", "_", "n", "a", "m", "e">>, <<"n", "a", "m", "e">>}

\* The sequences over S of at most n elements, all different.
DistinctSeqs(S, n) ==
    UNION {{q \in [1..k -> S] : \A i, j \in 1..k : i # j => q[i] # q[j]} : k \in 0..n}

RenameMaps ==
    {m \in UNION {[1..k -> RenameKeys \X RenameValues] : k \in 0..MaxMapItems} :
        \A i, j \in DOMAIN m : i # j => m[i][1] # m[j][1]}

\* The arguments tried for drop_columns and convert_columns_to_datetime.
DropArguments == {<<>>, <<<<"a", "g", "e">>, <<"n", "o", "n", "_", "e", "x", "i", "s", "t", "e", "n", "t", "_", "c", "o", "l">>>>, <<<<"n", "a", "m", "e">>>>}

ConvertArguments == {NoColumns, <<<<"j", "o", "i", "n", "_", "d", "a", "t", "e">>>>, <<<<"n", "o", "n", "_", "e", "x", "i", "s", "t", "e", "n", "t">>, <<"n", "a", "m", "e">>>>}

NoRenameCall == [method |-> "-", rename_map |-> <<>>, columns |-> <<>>, errors |-> "-"]

RnCall(method) == [NoRenameCall EXCEPT !.method = method]

RnIdle ==
    /\ rn_columns = <<>>
    /\ rn_before = <<>>
    /\ rn_call = NoRenameCall
    /\ rn_pc = "off"

\* DataQualityUtils(df) for a table of one row whose columns have different
\* names.
RnInit ==
    /\ \E made \in DistinctSeqs(RawColumns, MaxColumns) :
           rn_columns = [i \in DOMAIN made |->
                            [name |-> made[i].name, origin |-> made[i].name,
                             cells |-> made[i].cells]]
    /\ rn_before = <<>>
    /\ rn_call = NoRenameCall
    /\ rn_pc = "idle"

rnOthers == <<earlyVars, anVars, rtVars, dbVars, scVars, ppVars>>

\* A method that returns and leaves the object ready for the next call.
RnReturns(call, columns) ==
    /\ rn_pc = "idle"
    /\ rn_call' = call
    /\ rn_columns' = columns
    /\ rn_before' = rn_columns
    /\ UNCHANGED rn_pc
    /\ UNCHANGED rnOthers

CallCleanColumnNames ==
    RnReturns(RnCall("clean_column_names"), clean_column_names(rn_columns))

CallDropRedundantColumns ==
    RnReturns(RnCall("drop_redundant_columns"), drop_redundant_columns(rn_columns))

CallCleanDataframe ==
    RnReturns(RnCall("clean_dataframe"), clean_dataframe(rn_columns))

CallDropEmptyColumns ==
    RnReturns(RnCall("drop_empty_columns"), drop_empty_columns(rn_columns))

CallDropColumns ==
    \E names \in DropArguments :
        RnReturns([RnCall("drop_columns") EXCEPT !.columns = names],
                  drop_columns(rn_columns, names))

CallConvertColumnsToDatetime ==
    /\ rn_pc = "idle"
    /\ \E names \in ConvertArguments, errors \in {"coerce", "raise"} :
          LET r == convert_columns_to_datetime(rn_columns, names, errors)
          IN  /\ rn_call' = [RnCall("convert_columns_to_datetime")
                                EXCEPT !.columns = names, !.errors = errors]
              /\ rn_columns' = r.columns
              /\ rn_pc' = IF r.exc = "-" THEN "idle" ELSE "raised"
    /\ rn_before' = rn_columns
    /\ UNCHANGED rnOthers

CallRenameColumns ==
    /\ rn_pc = "idle"
    /\ \E rename_map \in RenameMaps :
          /\ rn_call' = [RnCall("rename_columns") EXCEPT !.rename_map = rename_map]
          /\ rn_columns' = rename_columns(rn_columns, rename_map)
    /\ rn_before' = rn_columns
    /\ rn_pc' = "returned"
    /\ UNCHANGED rnOthers

CallRenameAndPrioritizeColumns ==
    /\ rn_pc = "idle"
    /\ \E rename_map \in RenameMaps :
          /\ rn_call' = [RnCall("rename_and_prioritize_columns")
                            EXCEPT !.rename_map = rename_map]
          /\ rn_columns' = rename_and_prioritize_columns(rn_columns, rename_map)
    /\ rn_before' = rn_columns
    /\ rn_pc' = "returned"
    /\ UNCHANGED rnOthers

RnNext ==
    \/ CallCleanColumnNames
    \/ CallDropRedundantColumns
    \/ CallCleanDataframe
    \/ CallDropEmptyColumns
    \/ CallDropColumns
    \/ CallConvertColumnsToDatetime
    \/ CallRenameColumns
    \/ CallRenameAndPrioritizeColumns

\* The positions in the table as returned of the column that was called
\* origin when the table was constructed.
PositionsOf(origin) == {i \in DOMAIN rn_columns : rn_columns[i].origin = origin}

\* The name that the column constructed as origin had when the call began.
NameBefore(origin) ==
    rn_before[CHOOSE b \in DOMAIN rn_before : rn_before[b].origin = origin].name

\* C21: rename_columns and rename_and_prioritize_columns never fail on
\* mapping keys that are not columns; such keys create no column and the
\* existing keys are renamed, no column being lost or duplicated; after
\* rename_and_prioritize_columns the renamed columns come first, in the
\* order of the mapping, and the other columns follow in their original
\* relative order.
C21_Original ==
    rn_call.method \in {"rename_columns", "rename_and_prioritize_columns"} =>
        /\ rn_pc = "returned"
        /\ LET m == rn_call.rename_map
               Renamed(c) == HasKey(m, NameBefore(c.origin))
           IN  /\ Len(rn_columns) = Len(rn_before)
               /\ \A b \in DOMAIN rn_before :
                      /\ Cardinality(PositionsOf(rn_before[b].origin)) = 1
                      /\ \A i \in PositionsOf(rn_before[b].origin) :
                             /\ rn_columns[i].cells = rn_before[b].cells
                             /\ rn_columns[i].name =
                                    IF HasKey(m, rn_before[b].name)
                                    THEN ItemsGet(m, rn_before[b].name)
                                    ELSE rn_before[b].name
               /\ rn_call.method = "rename_and_prioritize_columns" =>
                      /\ \A i, j \in DOMAIN rn_columns :
                             (Renamed(rn_columns[i]) /\ ~Renamed(rn_columns[j])) => i < j
                      /\ \A i, j \in DOMAIN rn_columns :
                             (i < j /\ Renamed(rn_columns[i]) /\ Renamed(rn_columns[j])
                                    /\ NameBefore(rn_columns[i].origin)
                                           # NameBefore(rn_columns[j].origin)) =>
                                 \E a, b \in DOMAIN m :
                                     /\ a < b
                                     /\ m[a][1] = NameBefore(rn_columns[i].origin)
                                     /\ m[b][1] = NameBefore(rn_columns[j].origin)
                      /\ \A i, j \in DOMAIN rn_columns :
                             (i < j /\ ~Renamed(rn_columns[i]) /\ ~Renamed(rn_columns[j])) =>
                                 \E a, b \in DOMAIN rn_before :
                                     /\ a < b
                                     /\ rn_before[a].origin = rn_columns[i].origin
                                     /\ rn_before[b].origin = rn_columns[j].origin

(***************************************************************************)
(* analytics/analyzer.py                                                   *)
(***************************************************************************)
\* str.split(sep) for a separator of one character.
RECURSIVE SplitFrom(_, _, _, _)
SplitFrom(s, sep, i, cur) ==
    IF i > Len(s) THEN <<cur>>
    ELSE IF s[i] = sep THEN <<cur>> \o SplitFrom(s, sep, i + 1, <<>>)
    ELSE SplitFrom(s, sep, i + 1, Append(cur, s[i]))

split(s, sep) == SplitFrom(s, sep, 1, <<>>)

\* ReviewAnalyzer._parse_themes
parse_themes(theme_str) ==
    IF ~IsStr(theme_str) THEN <<>>
    ELSE LET parts == split(theme_str.v, ",")
             NotBlank(t) == strip(t) # <<>>
             kept == SelectSeq(parts, NotBlank)
         IN  [i \in DOMAIN kept |-> lower(strip(kept[i]))]

\* df.explode("theme_list"): one row per element of the list, and one row with
\* a missing value for an empty list.
RECURSIVE explode(_)
explode(rows) ==
    IF rows = <<>> THEN <<>>
    ELSE LET row == Head(rows)
             own == IF row.theme_list = <<>>
                    THEN <<[row EXCEPT !.theme_list = PyNaN]>>
                    ELSE [i \in DOMAIN row.theme_list |->
                             [row EXCEPT !.theme_list = Str(row.theme_list[i])]]
         IN  own \o explode(Tail(rows))

CountOf(seq, x) == Cardinality({i \in DOMAIN seq : seq[i] = x})

FirstIndex(seq, x) == SetMin({i \in DOMAIN seq : seq[i] = x})

\* The elements of S in the order Before, a strict total order on S.
OrderBy(S, Before(_, _)) ==
    [i \in 1..Cardinality(S) |->
        CHOOSE x \in S : Cardinality({y \in S : Before(y, x)}) = i - 1]

\* The sequences that hold every element of S once, by non-increasing count.
RECURSIVE DescendingOrders(_, _)
DescendingOrders(S, count) ==
    IF S = {} THEN {<<>>}
    ELSE UNION {{<<m>> \o rest : rest \in DescendingOrders(S \ {m}, count)} :
                   m \in {x \in S : \A y \in S : count[x] >= count[y]}}

\* Series.value_counts() without its ordering: the distinct values that are
\* not missing, in order of first appearance, each with its count.
value_counts_unsorted(values) ==
    LET present == SelectSeq(values, IsStr)
        Before(a, b) == FirstIndex(present, a) < FirstIndex(present, b)
        ordered == OrderBy(Range(present), Before)
    IN  {[i \in DOMAIN ordered |-> <<ordered[i].v, CountOf(present, ordered[i])>>]}

\* Series.value_counts(): the distinct values that are not missing, each with
\* its count, by decreasing count.  The counts are ordered by
\* sort_values(ascending=False) with the default kind "quicksort", which is
\* not stable: the order of values of equal count is left to the build, so
\* every order by decreasing count is an outcome.
value_counts(values) ==
    LET present == SelectSeq(values, IsStr)
        count == [x \in Range(present) |-> CountOf(present, x)]
    IN  {[i \in DOMAIN ordered |-> <<ordered[i].v, count[ordered[i]]>>] :
            ordered \in DescendingOrders(Range(present), count)}

\* Series.head(n)
head(seq, n) ==
    IF n >= 0 THEN SubSeq(seq, 1, IF n < Len(seq) THEN n ELSE Len(seq))
    ELSE SubSeq(seq, 1, Len(seq) + n)

\* Series.unique(): the distinct values in order of first appearance.
unique(values) ==
    LET Before(a, b) == FirstIndex(values, a) < FirstIndex(values, b)
    IN  OrderBy(Range(values), Before)

\* bank_df[bank_df["SENTIMENT_LABEL"] == label].explode("theme_list")
\*     ["theme_list"].value_counts().head(top_n).to_dict()
\* for each outcome of value_counts.
TopThemes(rows, bank, label, top_n) ==
    LET Selected(row) == row.bank_name = bank /\ row.SENTIMENT_LABEL = label
        exploded == explode(SelectSeq(rows, Selected))
    IN  {head(counts, top_n) :
            counts \in value_counts([i \in DOMAIN exploded |-> exploded[i].theme_list])}

\* ReviewAnalyzer.analyze_per_bank: the outcomes of one call.  The insights
\* are (bank, data) pairs in insertion order; each mapping is a sequence of
\* (theme, count) pairs in insertion order.
analyze_per_bank(rows, top_n) ==
    LET banks == unique([i \in DOMAIN rows |-> rows[i].bank_name])
    IN  OneOfEach([b \in DOMAIN banks |->
            {<<banks[b], [top_drivers |-> pos_themes, top_pain_points |-> neg_themes]>> :
                pos_themes \in TopThemes(rows, banks[b], positive, top_n),
                neg_themes \in TopThemes(rows, banks[b], negative, top_n)}])

\* ReviewAnalyzer.generate_summary_df: the size of every (bank, label, theme)
\* group, by bank, then label, then decreasing count; groups of equal count
\* stay in the order of groupby, which is the order of their themes.
generate_summary_df(rows) ==
    LET Present(row) == IsStr(row.theme_list)
        exploded == SelectSeq(explode(rows), Present)
        KeyOf(row) == <<row.bank_name, row.SENTIMENT_LABEL, row.theme_list.v>>
        keys == [i \in DOMAIN exploded |-> KeyOf(exploded[i])]
        Before(a, b) ==
            \/ StrLess(a[1], b[1])
            \/ /\ a[1] = b[1]
               /\ \/ StrLess(a[2], b[2])
                  \/ /\ a[2] = b[2]
                     /\ \/ CountOf(keys, a) > CountOf(keys, b)
                        \/ /\ CountOf(keys, a) = CountOf(keys, b)
                           /\ StrLess(a[3], b[3])
        ordered == OrderBy(Range(keys), Before)
    IN  [i \in DOMAIN ordered |->
            [bank_name |-> ordered[i][1], SENTIMENT_LABEL |-> ordered[i][2],
             theme_list |-> ordered[i][3], count |-> CountOf(keys, ordered[i])]]

\* str.join
RECURSIVE join(_, _)
join(sep, parts) ==
    IF parts = <<>> THEN <<>>
    ELSE IF Len(parts) = 1 THEN parts[1]
    ELSE parts[1] \o sep \o join(sep, Tail(parts))

CBE == <<"C", "B", "E">>

BOA == <<"B", "O", "A">>

AnalyzerBanks == {CBE, BOA}

AnalyzerLabels == {positive, negative, neutral}

\* Theme sets of enriched reviews.
AnalyzerThemeLists ==
    {<<>>, <<Reliability>>, <<UserExperience>>, <<Reliability, UserExperience>>}

\* THEMES cells: comma-separated themes, one of them in another case and with
\* stray blanks and a trailing comma, and the missing value.
AnalyzerThemeCells ==
    {Str(join(<<",", " ">>, themes)) : themes \in AnalyzerThemeLists}
        \cup {Str(<<" ">> \o lower(Reliability) \o <<" ", ",">>), PyNaN}

\* The most reviews a table holds.
MaxReviews == 2

\* The largest top_n asked for.
MaxTopN == 2

AnalyzerRows(cells) ==
    [bank_name : AnalyzerBanks, SENTIMENT_LABEL : AnalyzerLabels, THEMES : cells]

\* ReviewAnalyzer.__init__: the copy of the table with its theme_list column.
Construct(rows) ==
    [i \in DOMAIN rows |->
        [bank_name |-> rows[i].bank_name,
         SENTIMENT_LABEL |-> rows[i].SENTIMENT_LABEL,
         THEMES |-> rows[i].THEMES,
         theme_list |-> parse_themes(rows[i].THEMES)]]

\* ReviewAnalyzer(df) for a table of comma-separated themes.
AnInit ==
    /\ \E n \in 0..MaxReviews :
           \E rows \in [1..n -> AnalyzerRows(AnalyzerThemeCells)] :
               an_df = Construct(rows)
    /\ an_top_n = 0
    /\ an_insights = <<>>
    /\ an_summary = <<>>
    /\ an_pc = "constructed"

anOthers == <<earlyVars, rnVars, rtVars, dbVars, scVars, ppVars>>

CallAnalyzePerBank ==
    /\ an_pc = "constructed"
    /\ \E top_n \in 0..MaxTopN :
          /\ an_top_n' = top_n
          /\ an_insights' \in analyze_per_bank(an_df, top_n)
    /\ an_pc' = "analyzed"
    /\ UNCHANGED <<an_df, an_summary>>
    /\ UNCHANGED anOthers

CallGenerateSummaryDf ==
    /\ an_pc = "constructed"
    /\ an_summary' = generate_summary_df(an_df)
    /\ an_pc' = "summarised"
    /\ UNCHANGED <<an_df, an_top_n, an_insights>>
    /\ UNCHANGED anOthers

AnNext == CallAnalyzePerBank \/ CallGenerateSummaryDf

\* The number of (review, theme) pairs among the reviews of the bank with the
\* label: reviews i and themes t such that t is a theme of review i.
PairCount(bank, label, theme) ==
    Cardinality({i \in DOMAIN an_df :
                    /\ an_df[i].bank_name = bank
                    /\ an_df[i].SENTIMENT_LABEL = label
                    /\ theme \in Range(an_df[i].theme_list)})

ThemesCounted(bank, label) ==
    {theme \in UNION {Range(an_df[i].theme_list) : i \in DOMAIN an_df} :
        PairCount(bank, label, theme) > 0}

\* The mapping holds the top_n most frequent themes of the bank's reviews with
\* the label.
IsTopOf(mapping, bank, label) ==
    /\ Len(mapping) <= an_top_n
    /\ \A k, l \in DOMAIN mapping : k # l => mapping[k][1] # mapping[l][1]
    /\ \A k \in DOMAIN mapping :
           /\ mapping[k][1] \in ThemesCounted(bank, label)
           /\ mapping[k][2] = PairCount(bank, label, mapping[k][1])
           /\ k > 1 => mapping[k - 1][2] >= mapping[k][2]
           /\ \A theme \in ThemesCounted(bank, label) :
                  (\A l \in DOMAIN mapping : mapping[l][1] # theme)
                      => PairCount(bank, label, theme) <= mapping[k][2]
    /\ Len(mapping) < an_top_n
           => ThemesCounted(bank, label) = {mapping[k][1] : k \in DOMAIN mapping}

\* C22: analyze_per_bank yields one entry per bank of the table; its
\* top_drivers count, for each theme, the bank's positive reviews that have the
\* theme and its top_pain_points the bank's negative reviews that have it
\* (reviews with another label count nowhere); each mapping has at most top_n
\* entries by non-increasing count, leaves out no theme that has a higher
\* count than one it holds, and leaves out a theme only when it holds top_n.
C22_TopThemesPerBank ==
    an_pc = "analyzed" =>
        /\ {an_insights[b][1] : b \in DOMAIN an_insights}
               = {an_df[i].bank_name : i \in DOMAIN an_df}
        /\ \A b, c \in DOMAIN an_insights :
               b # c => an_insights[b][1] # an_insights[c][1]
        /\ \A b \in DOMAIN an_insights :
               /\ IsTopOf(an_insights[b][2].top_drivers, an_insights[b][1], positive)
               /\ IsTopOf(an_insights[b][2].top_pain_points,
                          an_insights[b][1], negative)

\* One bank has two positive reviews on reliability, one of them also on user
\* experience, and top_n = 1: reliability, counted twice, is the only driver.
C22_Witness ==
    /\ an_pc = "analyzed"
    /\ an_top_n = 1
    /\ \E b \in DOMAIN an_insights :
           /\ an_insights[b][2].top_drivers = <<<<lower(Reliability), 2>>>>
           /\ PairCount(an_insights[b][1], positive, lower(UserExperience)) = 1

(***************************************************************************)
(* The keywords and themes cells: written by run_pipeline (to_csv), read   *)
(* back by db/seed_reviews.py (format_json_field) and by                   *)
(* visualization/sentiment_visualizer.py (eval).                           *)
(***************************************************************************)
Quote == "'"

DoubleQuote == "\""

Backslash == "\\"

\* Every character c of s that is in escaped, with a backslash before it.
RECURSIVE EscapeChars(_, _)
EscapeChars(s, escaped) ==
    IF s = <<>> THEN <<>>
    ELSE (IF Head(s) \in escaped THEN <<Backslash, Head(s)>> ELSE <<Head(s)>>)
             \o EscapeChars(Tail(s), escaped)

\* repr(s) of a str: single quotes, unless s holds a single quote and no
\* double quote.
repr(s) ==
    IF Quote \in Range(s) /\ DoubleQuote \notin Range(s)
    THEN <<DoubleQuote>> \o EscapeChars(s, {Backslash}) \o <<DoubleQuote>>
    ELSE <<Quote>> \o EscapeChars(s, {Backslash, Quote}) \o <<Quote>>

\* str(items) of a list of str, which to_csv writes for a list cell.
str_list(items) ==
    <<"[">> \o join(<<",", " ">>, [i \in DOMAIN items |-> repr(items[i])]) \o <<"]">>

\* A field as csv writes it: quoted when it holds the delimiter, the quote
\* character or a line break, its quote characters doubled.
csv_write(field) ==
    IF \E c \in Range(field) : c \in {",", DoubleQuote, "\n"}
    THEN <<DoubleQuote>> \o Replace(field, <<DoubleQuote>>, <<DoubleQuote, DoubleQuote>>)
             \o <<DoubleQuote>>
    ELSE field

\* A field as csv reads it.
csv_read(field) ==
    IF field # <<>> /\ Head(field) = DoubleQuote
    THEN Replace(SubSeq(field, 2, Len(field) - 1),
                 <<DoubleQuote, DoubleQuote>>, <<DoubleQuote>>)
    ELSE field

ParseError == [ok |-> FALSE, value |-> <<>>, next |-> 0]

Parsed(value, next) == [ok |-> TRUE, value |-> value, next |-> next]

\* The first position from i on that holds no whitespace.
SkipSpaces(s, i) ==
    SetMin({j \in i..(Len(s) + 1) : j = Len(s) + 1 \/ s[j] \notin Whitespace})

\* The string literal whose opening quote q stands right before position i.
RECURSIVE ReadString(_, _, _, _)
ReadString(s, i, q, acc) ==
    IF i > Len(s) THEN ParseError
    ELSE IF s[i] = q THEN Parsed(acc, i + 1)
    ELSE IF s[i] = Backslash
    THEN IF i < Len(s) /\ s[i + 1] \in {Backslash, Quote, DoubleQuote}
         THEN ReadString(s, i + 2, q, Append(acc, s[i + 1]))
         ELSE ParseError
    ELSE ReadString(s, i + 1, q, Append(acc, s[i]))

\* The items of a list from position i on, up to the closing bracket.
RECURSIVE ReadItems(_, _, _, _)
ReadItems(s, i, quotes, acc) ==
    LET j == SkipSpaces(s, i)
    IN  IF j > Len(s) \/ s[j] \notin quotes THEN ParseError
        ELSE LET r == ReadString(s, j + 1, s[j], <<>>)
                 k == SkipSpaces(s, r.next)
             IN  IF ~r.ok \/ k > Len(s) THEN ParseError
                 ELSE IF s[k] = "," THEN ReadItems(s, k + 1, quotes, Append(acc, r.value))
                 ELSE IF s[k] = "]" THEN Parsed(Append(acc, r.value), k + 1)
                 ELSE ParseError

\* The list of str that the text denotes, with the given quote characters;
\* anything else is an error.
ParseList(s, quotes) ==
    LET i == SkipSpaces(s, 1)
    IN  IF i > Len(s) \/ s[i] # "[" THEN ParseError
        ELSE LET j == SkipSpaces(s, i + 1)
                 r == IF j <= Len(s) /\ s[j] = "]" THEN Parsed(<<>>, j + 1)
                      ELSE ReadItems(s, j, quotes, <<>>)
             IN  IF r.ok /\ SkipSpaces(s, r.next) > Len(s)
                 THEN Parsed(r.value, r.next)
                 ELSE ParseError

\* json.loads on the text of a list of strings; not ok is JSONDecodeError.
json_loads(s) == ParseList(s, {DoubleQuote})

\* json.dumps of a list of str.
json_dumps(items) ==
    <<"[">> \o join(<<",", " ">>,
                    [i \in DOMAIN items |->
                        <<DoubleQuote>> \o EscapeChars(items[i], {Backslash, DoubleQuote})
                            \o <<DoubleQuote>>])
        \o <<"]">>

\* eval on the text of a list of str; not ok is the exception it raises.
eval(s) == ParseList(s, {Quote, DoubleQuote})

\* format_json_field without the replacement of the single quotes.
format_json_field_as_written(raw) ==
    LET loaded == json_loads(raw)
    IN  IF loaded.ok THEN json_dumps(loaded.value) ELSE <<"[", "]">>

\* format_json_field
format_json_field(raw) ==
    LET loaded == json_loads(Replace(raw, <<Quote>>, <<DoubleQuote>>))
    IN  IF loaded.ok THEN json_dumps(loaded.value) ELSE <<"[", "]">>

\* Terms of a TfidfVectorizer(ngram_range=(1, 2)): lower-case words of two or
\* more word characters, alone or in pairs joined by one blank.
ProducedKeywords ==
    { <<"a", "p", "p">>,
      <<"s", "l", "o", "w", " ", "a", "p", "p">>,
      <<"l", "o", "g", "i", "n">>,
      <<"c", "r", "a", "s", "h">>,
      <<"o", "t", "p", "_", "2">> }

\* The longest keyword list of a row (top_k is 5 in run_pipeline).
MaxCellItems == 3

ProducedKeywordLists ==
    {K \in UNION {[1..n -> ProducedKeywords] : n \in 0..MaxCellItems} :
        \A i, j \in DOMAIN K : i # j => K[i] # K[j]}

NoCells == <<>>

\* A row of df after the stage AssignThemes.
RtInit ==
    /\ \E K \in ProducedKeywordLists :
           rt_list = [keywords |-> K, themes |-> assign_themes(K)]
    /\ rt_cell = NoCells
    /\ rt_stored = NoCells
    /\ rt_plotted = NoCells
    /\ rt_pc = "held"

rtOthers == <<earlyVars, rnVars, anVars, dbVars, scVars, ppVars>>

\* run_pipeline line 35: df.to_csv(output_csv, index=False)
WriteCells ==
    /\ rt_pc = "held"
    /\ rt_cell' = [keywords |-> csv_write(str_list(rt_list.keywords)),
                   themes |-> csv_write(str_list(rt_list.themes))]
    /\ rt_pc' = "written"
    /\ UNCHANGED <<rt_list, rt_stored, rt_plotted>>
    /\ UNCHANGED rtOthers

\* insert_reviews_from_csv lines 97, 130-131: the fields of the row as
\* csv.DictReader yields them, through format_json_field.
StoreCells ==
    /\ rt_pc = "written"
    /\ rt_stored = NoCells
    /\ rt_stored' = [keywords |-> format_json_field(csv_read(rt_cell.keywords)),
                     themes |-> format_json_field(csv_read(rt_cell.themes))]
    /\ UNCHANGED <<rt_list, rt_cell, rt_plotted, rt_pc>>
    /\ UNCHANGED rtOthers

\* SentimentThemeVisualizer.__init__ lines 30-33: read_csv, then eval on the
\* themes and keywords columns.
PlotCells ==
    /\ rt_pc = "written"
    /\ rt_plotted = NoCells
    /\ rt_plotted' = [keywords |-> eval(csv_read(rt_cell.keywords)),
                      themes |-> eval(csv_read(rt_cell.themes))]
    /\ UNCHANGED <<rt_list, rt_cell, rt_stored, rt_pc>>
    /\ UNCHANGED rtOthers

RtNext == WriteCells \/ StoreCells \/ PlotCells

\* The text is a bracketed list of quoted strings.
IsListForm(text) ==
    /\ text # <<>>
    /\ Head(text) = "["
    /\ text[Len(text)] = "]"
    /\ ParseList(text, {Quote, DoubleQuote}).ok

\* The parse succeeded and gave the list.
Yields(parsed, items) == parsed.ok /\ parsed.value = items

\* C23: the keywords and themes cells that run_pipeline writes are list-form
\* text, the empty list included ("[]"); what format_json_field stores for a
\* cell is the JSON text of a list with the same elements in the same order,
\* and the visualizer's parser yields a list with the same elements in the
\* same order.
C23_CellsRoundTrip ==
    /\ rt_pc = "written" =>
           /\ IsListForm(csv_read(rt_cell.keywords))
           /\ IsListForm(csv_read(rt_cell.themes))
           /\ rt_list.keywords = <<>> => csv_read(rt_cell.keywords) = <<"[", "]">>
    /\ rt_stored # NoCells =>
           /\ Yields(json_loads(rt_stored.keywords), rt_list.keywords)
           /\ Yields(json_loads(rt_stored.themes), rt_list.themes)
    /\ rt_plotted # NoCells =>
           /\ Yields(rt_plotted.keywords, rt_list.keywords)
           /\ Yields(rt_plotted.themes, rt_list.themes)

\* A row with three keywords and two themes has been written, stored and
\* parsed by the visualizer.
C23_Witness ==
    /\ rt_stored # NoCells
    /\ rt_plotted # NoCells
    /\ Len(rt_list.keywords) = 3
    /\ Len(rt_list.themes) = 2
    /\ rt_plotted.keywords.value[1] # rt_plotted.keywords.value[2]

(***************************************************************************)
(* db/seed_reviews.py: insert_reviews_from_csv                             *)
(***************************************************************************)
Dashen == <<"D", "a", "s", "h", "e", "n">>

Awash == <<"A", "w", "a", "s", "h">>

Zemen == <<"Z", "e", "m", "e", "n">>

\* banks = ["BOA", "Dashen", "CBE"]
banks == <<BOA, Dashen, CBE>>

\* The most rows of a CSV file.
MaxCsvRows == 3

\* A CSV row: its bank, and whether building or executing its INSERT raises
\* (float() of a field that is no number, a constraint of the table, ...).
CsvRows == [bank : {BOA, Awash, Zemen}, insert : {"ok", "raises"}]

NoCsv == [exists |-> FALSE, rows |-> <<>>]

CsvFiles ==
    {NoCsv} \cup
    [exists : {TRUE}, rows : UNION {[1..n -> CsvRows] : n \in 0..MaxCsvRows}]

\* The process is about to call insert_reviews_from_csv(csv_path); the BANKS
\* table may hold banks of its own, the REVIEWS rows of this run are none.
DbInit ==
    /\ db_csv \in CsvFiles
    /\ db_banks \in SUBSET {Awash}
    /\ db_i = 0
    /\ db_pending = <<>>
    /\ db_committed = <<>>
    /\ db_commits = 0
    /\ db_pc = "called"

dbOthers == <<earlyVars, rnVars, anVars, rtVars, scVars, ppVars>>

\* Lines 62-93: no file, return; otherwise connect (which may raise), insert
\* the three banks, skipping those that exist, commit, and read BANKS.
SeedBanks ==
    /\ db_pc = "called"
    /\ \/ /\ ~db_csv.exists
          /\ db_pc' = "returned"
          /\ UNCHANGED <<db_banks, db_commits>>
       \/ /\ db_csv.exists
          /\ db_pc' = "raised"
          /\ UNCHANGED <<db_banks, db_commits>>
       \/ /\ db_csv.exists
          /\ db_banks' = db_banks \cup Range(banks)
          /\ db_commits' = db_commits + 1
          /\ db_pc' = "rows"
    /\ UNCHANGED <<db_csv, db_i, db_pending, db_committed>>
    /\ UNCHANGED dbOthers

\* One turn of the loop of lines 98-133, each review row committed as soon as
\* it is inserted.
InsertRow_commit_each ==
    /\ db_pc = "rows"
    /\ db_i < Len(db_csv.rows)
    /\ LET row == db_csv.rows[db_i + 1]
       IN  IF row.bank \notin db_banks
           THEN /\ db_i' = db_i + 1
                /\ UNCHANGED <<db_pending, db_committed, db_commits, db_pc>>
           ELSE IF row.insert = "raises"
           THEN /\ db_pending' = <<>>
                /\ db_pc' = "raised"
                /\ UNCHANGED <<db_i, db_committed, db_commits>>
           ELSE /\ db_committed' = Append(db_committed, db_i + 1)
                /\ db_commits' = db_commits + 1
                /\ db_i' = db_i + 1
                /\ UNCHANGED <<db_pending, db_pc>>
    /\ UNCHANGED <<db_csv, db_banks>>
    /\ UNCHANGED dbOthers

\* One turn of the loop of lines 98-133: a row of an unknown bank is skipped;
\* an exception leaves the function through the with blocks, which close the
\* connection and so roll back what was inserted; otherwise the row is
\* inserted in the open transaction.
InsertRow ==
    /\ db_pc = "rows"
    /\ db_i < Len(db_csv.rows)
    /\ LET row == db_csv.rows[db_i + 1]
       IN  IF row.bank \notin db_banks
           THEN /\ db_i' = db_i + 1
                /\ UNCHANGED <<db_pending, db_pc>>
           ELSE IF row.insert = "raises"
           THEN /\ db_pending' = <<>>
                /\ db_pc' = "raised"
                /\ UNCHANGED db_i
           ELSE /\ db_pending' = Append(db_pending, db_i + 1)
                /\ db_i' = db_i + 1
                /\ UNCHANGED db_pc
    /\ UNCHANGED <<db_csv, db_banks, db_committed, db_commits>>
    /\ UNCHANGED dbOthers

\* Line 135: conn.commit() after the last row.
CommitRows ==
    /\ db_pc = "rows"
    /\ db_i = Len(db_csv.rows)
    /\ db_committed' = db_committed \o db_pending
    /\ db_pending' = <<>>
    /\ db_commits' = db_commits + 1
    /\ db_pc' = "returned"
    /\ UNCHANGED <<db_csv, db_banks, db_i>>
    /\ UNCHANGED dbOthers

DbNext == SeedBanks \/ InsertRow \/ CommitRows

\* The rows of the CSV file whose bank is in the BANKS table, in file order.
RowsOfKnownBanks ==
    LET Known(i) == db_csv.rows[i].bank \in db_banks
    IN  SelectSeq([i \in DOMAIN db_csv.rows |-> i], Known)

\* C24: no review row is committed while rows are still being processed; if an
\* insert raises, no review row of the run is committed; if the run finishes
\* on an existing file, the review rows were committed by one commit (the
\* second of the run, after the one for the banks), and they are exactly the
\* rows of known banks, in file order, the rows of unknown banks skipped.
C24_CommitOnceAtEnd ==
    /\ db_pc \in {"called", "rows", "raised"} => db_committed = <<>>
    /\ db_pc = "raised" => db_pending = <<>>
    /\ (db_pc = "returned" /\ db_csv.exists) =>
           /\ db_committed = RowsOfKnownBanks
           /\ db_pending = <<>>
           /\ db_i = Len(db_csv.rows)
           /\ db_commits = 2
    /\ (db_pc = "returned" /\ ~db_csv.exists) =>
           db_committed = <<>> /\ db_commits = 0

\* The first row was inserted, the second was skipped for its unknown bank,
\* and the insert of the third raised: nothing is committed.
C24_Witness ==
    /\ db_pc = "raised"
    /\ db_i = 2
    /\ db_csv.rows[1].bank \in db_banks
    /\ db_csv.rows[2].bank \notin db_banks
    /\ db_csv.rows[3].insert = "raises"
    /\ db_committed = <<>>

(***************************************************************************)
(* data/collect_reviews.py: PlayStoreReviewScraper.fetch_reviews           *)
(***************************************************************************)
\* count=min(200, ...)
MaxCount == 200

\* The most reviews the source holds, and the most it returns in one page.
MaxSourceReviews == 3

MaxPageSize == 2

\* The largest max_reviews of a scraper.
MaxWanted == 3

\* Retries after errors are counted up to this number.
MaxErrors == 2

\* continuation_token=None, also what reviews() assumes when the argument is
\* not passed.
NoToken == "None"

\* The review source behind reviews(): it holds the reviews 1..size, newest
\* first, returns at most page_size of them per request, and fails on every
\* request, on none, or on any it likes.
Sources ==
    [size : 0..MaxSourceReviews, page_size : 1..MaxPageSize,
     failing : {"never", "always", "sometimes"}]

\* What reviews(..., count=count, continuation_token=token) returns: the
\* reviews after the position the token stands for, and the token of the
\* position reached, or None when no review is left.
reviews(source, count, token) ==
    LET start == IF token = NoToken THEN 0 ELSE token
        wanted == IF count < source.page_size THEN count ELSE source.page_size
        stop == IF start + wanted < source.size THEN start + wanted ELSE source.size
    IN  <<[k \in 1..(stop - start) |-> start + k],
          IF stop < source.size THEN stop ELSE NoToken>>

\* PlayStoreReviewScraper(app_id, bank_name, max_reviews).fetch_reviews() has
\* been entered: all_reviews = [], count = 0.
ScInit ==
    /\ sc_source \in Sources
    /\ sc_max_reviews \in 0..MaxWanted
    /\ sc_all_reviews = <<>>
    /\ sc_requests = <<>>
    /\ sc_errors = 0
    /\ sc_pc = "loop"

scOthers == <<earlyVars, rnVars, anVars, rtVars, dbVars, ppVars>>

\* count = len(all_reviews)
ScCount == Len(sc_all_reviews)

\* The arguments of the call of reviews() in lines 21-28: no continuation
\* token is passed.
ScRequest ==
    [count |-> IF MaxCount < sc_max_reviews - ScCount THEN MaxCount
               ELSE sc_max_reviews - ScCount,
     continuation_token |-> NoToken]

\* Lines 19-31, a turn of the loop in which reviews() raises: warn and sleep.
FetchFails ==
    /\ sc_pc = "loop"
    /\ ScCount < sc_max_reviews
    /\ sc_source.failing \in {"always", "sometimes"}
    /\ sc_errors' = IF sc_errors < MaxErrors THEN sc_errors + 1 ELSE sc_errors
    /\ sc_pc' = "sleeping"
    /\ UNCHANGED <<sc_source, sc_max_reviews, sc_all_reviews, sc_requests>>
    /\ UNCHANGED scOthers

\* Lines 31-32: time.sleep(3) is over, continue with the next turn.
Retry ==
    /\ sc_pc = "sleeping"
    /\ sc_pc' = "loop"
    /\ UNCHANGED <<sc_source, sc_max_reviews, sc_all_reviews, sc_requests, sc_errors>>
    /\ UNCHANGED scOthers

\* Lines 19-36, a turn of the loop in which reviews() returns a page: the
\* token it returns is dropped; an empty page ends the loop.
FetchPage ==
    /\ sc_pc = "loop"
    /\ ScCount < sc_max_reviews
    /\ sc_source.failing \in {"never", "sometimes"}
    /\ LET page == reviews(sc_source, ScRequest.count, ScRequest.continuation_token)
           rvws == page[1]
       IN  /\ sc_requests' = Append(sc_requests,
                                    [count |-> ScRequest.count,
                                     continuation_token |-> ScRequest.continuation_token,
                                     rvws |-> rvws,
                                     next_token |-> page[2]])
           /\ IF rvws = <<>>
              THEN sc_pc' = "returned" /\ UNCHANGED sc_all_reviews
              ELSE sc_all_reviews' = sc_all_reviews \o rvws /\ UNCHANGED sc_pc
    /\ UNCHANGED <<sc_source, sc_max_reviews, sc_errors>>
    /\ UNCHANGED scOthers

\* Lines 19 and 39: count has reached max_reviews.
FetchReturn ==
    /\ sc_pc = "loop"
    /\ ScCount >= sc_max_reviews
    /\ sc_pc' = "returned"
    /\ UNCHANGED <<sc_source, sc_max_reviews, sc_all_reviews, sc_requests, sc_errors>>
    /\ UNCHANGED scOthers

ScNext == FetchFails \/ Retry \/ FetchPage \/ FetchReturn

\* The reviews of the pages k to the last one, in fetch order.
RECURSIVE PagesFrom(_)
PagesFrom(k) ==
    IF k > Len(sc_requests) THEN <<>> ELSE sc_requests[k].rvws \o PagesFrom(k + 1)

\* The number of reviews collected before the k-th page was asked for.
CollectedBefore(k) == Len(PagesFrom(1)) - Len(PagesFrom(k))

\* C25 as claimed: the request of the first page carries no token; the request
\* of each later page carries the token the page before returned and asks
\* for max_reviews minus the number of reviews collected; no page is asked
\* for after a page that reports no further pages; the result holds the
\* reviews of the fetched pages in fetch order, each review once.
C25_Original ==
    /\ \A k \in DOMAIN sc_requests :
           /\ k = 1 => sc_requests[k].continuation_token = NoToken
           /\ k > 1 => /\ sc_requests[k - 1].next_token # NoToken
                       /\ sc_requests[k].continuation_token
                              = sc_requests[k - 1].next_token
           /\ sc_requests[k].count = sc_max_reviews - CollectedBefore(k)
    /\ sc_all_reviews = PagesFrom(1)
    /\ \A i, j \in DOMAIN sc_all_reviews :
           i # j => sc_all_reviews[i] # sc_all_reviews[j]

\* C27 as claimed: fetch_reviews returns in the end, whatever the source does
\* (and so the retries after errors come to an end).
C27_Original == <>(sc_pc = "returned")

(***************************************************************************)
(* data/collect_reviews.py: ReviewPreprocessor.clean_reviews               *)
(***************************************************************************)
Chars(digits) == [i \in DOMAIN digits |-> DigitChars[digits[i] + 1]]

\* "2024-01-0d"
IsoDate(d) == Chars(<<2, 0, 2, 4>>) \o <<"-">> \o Chars(<<0, 1>>) \o <<"-">> \o Chars(<<0, d>>)

\* "2024-01-0dThh:00:00Z"
IsoTimestamp(d, hh) ==
    IsoDate(d) \o <<"T">> \o Chars(hh) \o <<":">> \o Chars(<<0, 0>>) \o <<":">>
        \o Chars(<<0, 0>>) \o <<"Z">>

\* pd.to_datetime(at).date() as str, for a timestamp in ISO format and UTC.
to_date(at) == SubSeq(at, 1, 10)

GooglePlay == <<"G", "o", "o", "g", "l", "e", " ", "P", "l", "a", "y">>

\* pd.isna
IsMissing(x) == x \in {PyNone, PyNaN}

\* The most rows of a raw table.
MaxRawRows == 3

\* Rows as reviews() returns them: review text (or None), score (or missing),
\* timestamp, and a field that clean_reviews does not keep.
RawRows ==
    [content : {Str(<<"G", "r", "e", "a", "t", "!">>), Str(<<"B", "a", "d", ".">>), PyNone},
     score : {[t |-> "int", v |-> <<"5">>], PyNaN},
     at : {IsoTimestamp(1, <<1, 2>>), IsoTimestamp(1, <<1, 8>>), IsoTimestamp(4, <<1, 2>>)},
     userName : {<<"u">>}]

EmptyTable == [columns |-> <<>>, rows |-> <<>>]

\* df.drop_duplicates(subset=["review", "date"]): the first row of each
\* (review, date) pair stays.
drop_duplicates(rows) ==
    LET First(i) == \A j \in 1..(i - 1) :
                        <<rows[j].review, rows[j].date>> # <<rows[i].review, rows[i].date>>
        kept == SelectSeq([i \in DOMAIN rows |-> i], First)
    IN  [k \in DOMAIN kept |-> rows[kept[k]]]

\* df.dropna(subset=["review", "rating"])
dropna(rows) ==
    LET Complete(row) == ~IsMissing(row.review) /\ ~IsMissing(row.rating)
    IN  SelectSeq(rows, Complete)

PpReturn(table) == [kind |-> "return", exc |-> "-", value |-> table]

PpRaise(exc) == [kind |-> "raise", exc |-> exc, value |-> EmptyTable]

\* Nothing has been returned or raised yet.
PpNoOutcome == [kind |-> "none", exc |-> "-", value |-> EmptyTable]

\* ReviewPreprocessor.clean_reviews: the outcome of one call.  An empty frame
\* is answered with pd.DataFrame() (lines 44-45).  Lines 47-53 select and
\* rename the three fields, turn the timestamp into its day, and drop the
\* repeated and the incomplete rows.  Line 54 sets the new column "bank" to
\* a scalar through df.loc: on a frame that has lost every row pandas
\* refuses ("cannot set a frame with no defined index and a scalar") and the
\* call raises ValueError; otherwise lines 54-55 add the two columns.
clean_reviews(raw, bank_name) ==
    IF raw = <<>> THEN PpReturn(EmptyTable)
    ELSE LET selected == [i \in DOMAIN raw |->
                             [review |-> raw[i].content, rating |-> raw[i].score,
                              date |-> to_date(raw[i].at)]]
             cleaned == dropna(drop_duplicates(selected))
         IN  IF cleaned = <<>> THEN PpRaise("ValueError")
             ELSE PpReturn(
                      [columns |-> <<"review", "rating", "date", "bank", "source">>,
                       rows |-> [i \in DOMAIN cleaned |->
                                    [review |-> cleaned[i].review,
                                     rating |-> cleaned[i].rating,
                                     date |-> cleaned[i].date, bank |-> bank_name,
                                     source |-> GooglePlay]]])

PpInit ==
    /\ pp_df \in UNION {[1..n -> RawRows] : n \in 0..MaxRawRows}
    /\ pp_bank_name \in {CBE, BOA}
    /\ pp_result = PpNoOutcome
    /\ pp_pc = "idle"

ppOthers == <<earlyVars, rnVars, anVars, rtVars, dbVars, scVars>>

CallCleanReviews ==
    /\ pp_pc = "idle"
    /\ pp_result' = clean_reviews(pp_df, pp_bank_name)
    /\ pp_pc' = IF pp_result'.kind = "raise" THEN "raised" ELSE "returned"
    /\ UNCHANGED <<pp_df, pp_bank_name>>
    /\ UNCHANGED ppOthers

PpNext == CallCleanReviews

\* The day of the timestamp: its year, month and day fields.
DayOf(at) == <<SubSeq(at, 1, 4), SubSeq(at, 6, 7), SubSeq(at, 9, 10)>>

\* The raw row repeats the (review, date) pair of an earlier raw row.
RepeatsEarlier(i) ==
    \E j \in 1..(i - 1) :
        /\ pp_df[j].content = pp_df[i].content
        /\ DayOf(pp_df[j].at) = DayOf(pp_df[i].at)

\* The raw rows that stay, in their order.
Remaining ==
    LET Stays(i) == /\ ~RepeatsEarlier(i)
                    /\ pp_df[i].content \notin {PyNone, PyNaN}
                    /\ pp_df[i].score \notin {PyNone, PyNaN}
    IN  SelectSeq([i \in DOMAIN pp_df |-> i], Stays)

\* The table has the fields review, rating and date of the raw rows, followed
\* by bank and source, and one row, in order, for each raw row that stays;
\* every row carries the given bank and the source 'Google Play'.
CleanedTable(table) ==
    /\ table.columns = <<"review", "rating", "date", "bank", "source">>
    /\ Len(table.rows) = Len(Remaining)
    /\ \A k \in DOMAIN table.rows :
           LET row == table.rows[k]
               raw == pp_df[Remaining[k]]
           IN  /\ DOMAIN row = {"review", "rating", "date", "bank", "source"}
               /\ row.review = raw.content
               /\ row.rating = raw.score
               /\ <<SubSeq(row.date, 1, 4), SubSeq(row.date, 6, 7),
                    SubSeq(row.date, 9, 10)>> = DayOf(raw.at)
               /\ Len(row.date) = 10
               /\ row.bank = pp_bank_name
               /\ row.source = GooglePlay

\* C26 as claimed: the call returns a table; for a non-empty raw table it has
\* the fields review, rating and date of the raw rows, followed by bank and
\* source, and one row, in order, for each raw row that neither repeats the
\* (review, date) pair of an earlier raw row nor lacks its review or rating,
\* every row carrying the given bank and the source 'Google Play'; an empty
\* input gives an empty table.
C26_Original ==
    pp_pc # "idle" =>
        /\ pp_pc = "returned"
        /\ IF pp_df = <<>> THEN pp_result.value = EmptyTable
           ELSE CleanedTable(pp_result.value)

\* What the code does: the call returns the table of the claim whenever a row
\* stays (or the input is empty), and raises ValueError when a non-empty raw
\* table loses every row.
CleanReviewsOutcome ==
    pp_pc # "idle" =>
        IF pp_df # <<>> /\ Remaining = <<>>
        THEN pp_pc = "raised" /\ pp_result = PpRaise("ValueError")
        ELSE /\ pp_pc = "returned"
             /\ pp_result.kind = "return"
             /\ IF pp_df = <<>> THEN pp_result.value = EmptyTable
                ELSE CleanedTable(pp_result.value)

(***************************************************************************)
(* models/sentiment_model.py: what reaches the model                       *)
(***************************************************************************)
\* C28 as claimed: every text handed to the model by analyze_sentiment (also
\* through safe_analyze_sentiment) is non-empty after trimming and at most 512
\* characters long.
C28_Original ==
    \A k \in DOMAIN model_calls :
        /\ strip(model_calls[k]) # <<>>
        /\ Len(model_calls[k]) <= MaxInputLen

(***************************************************************************)
(* data/data_quality_utils.py: the frame of translate_non_english_text     *)
(***************************************************************************)
\* C30 as claimed: when translate_non_english_text returns, the table has the
\* rows and columns it had, every column but the text column is as it was,
\* and every cell of the text column that was not translated (already
\* English, language not detected, translation failed) is the cell it was,
\* a missing or non-string cell included.
C30_Original ==
    tr_pc = "returned" =>
        /\ DOMAIN tr_df = DOMAIN tr_before
        /\ \A c \in DOMAIN tr_df \ {"text"} : tr_df[c] = tr_before[c]
        /\ Len(tr_df["text"]) = Len(tr_before["text"])
        /\ \A i \in DOMAIN tr_tasks :
               tr_tasks[i].how # "translated" => tr_df["text"][i] = tr_before["text"][i]

(***************************************************************************)
(* analytics/analyzer.py on the THEMES texts of the database               *)
(***************************************************************************)
\* Keyword lists of enriched reviews.
StoredKeywordLists ==
    { <<>>,
      << <<"c", "r", "a", "s", "h">> >>,
      << <<"l", "o", "g", "i", "n">>, <<"c", "r", "a", "s", "h">> >> }

\* The THEMES texts of their rows: the theme list of assign_themes, written
\* by run_pipeline and put into the table through format_json_field.
StoredThemeCells ==
    {Str(format_json_field(csv_read(csv_write(str_list(assign_themes(K)))))) :
        K \in StoredKeywordLists}

\* ReviewAnalyzer(df) for a table read from the database.
AnInitStored ==
    /\ \E n \in 0..MaxReviews :
           \E rows \in [1..n -> AnalyzerRows(StoredThemeCells)] :
               an_df = Construct(rows)
    /\ an_top_n = 0
    /\ an_insights = <<>>
    /\ an_summary = <<>>
    /\ an_pc = "constructed"

\* The theme keys of the insights and of the summary table.
ThemeKeys ==
    UNION {{an_insights[b][2].top_drivers[k][1] :
                k \in DOMAIN an_insights[b][2].top_drivers}
           \cup {an_insights[b][2].top_pain_points[k][1] :
                     k \in DOMAIN an_insights[b][2].top_pain_points} :
           b \in DOMAIN an_insights}
        \cup {an_summary[r].theme_list : r \in DOMAIN an_summary}

\* C29 as claimed: every theme key of top_drivers, top_pain_points and the
\* summary table is, but for the case of its letters, a theme of the taxonomy
\* or 'Miscellaneous', with no bracket or quote attached.
C29_Original ==
    \A key \in ThemeKeys :
        \E theme \in TaxonomyThemes \cup {Miscellaneous} : lower(key) = lower(theme)

(***************************************************************************)
(* Specifications.                                                         *)
(***************************************************************************)
\* ReviewAnalyzer has not been constructed.
AnIdle ==
    /\ an_df = <<>>
    /\ an_top_n = 0
    /\ an_insights = <<>>
    /\ an_summary = <<>>
    /\ an_pc = "off"

\* No cell is on its way.
RtIdle ==
    /\ rt_list = <<>>
    /\ rt_cell = <<>>
    /\ rt_stored = <<>>
    /\ rt_plotted = <<>>
    /\ rt_pc = "off"

\* insert_reviews_from_csv has not been called.
DbIdle ==
    /\ db_csv = <<>>
    /\ db_banks = {}
    /\ db_i = 0
    /\ db_pending = <<>>
    /\ db_committed = <<>>
    /\ db_commits = 0
    /\ db_pc = "off"

\* No scraper has been constructed.
ScIdle ==
    /\ sc_source = <<>>
    /\ sc_max_reviews = 0
    /\ sc_all_reviews = <<>>
    /\ sc_requests = <<>>
    /\ sc_errors = 0
    /\ sc_pc = "off"

\* clean_reviews has not been called.
PpIdle ==
    /\ pp_df = <<>>
    /\ pp_bank_name = <<>>
    /\ pp_result = PpNoOutcome
    /\ pp_pc = "off"

\* None of the text components of the pipeline and the data-quality layer runs.
EarlyIdle == SentIdle /\ ThemesIdle /\ KwIdle /\ PlIdle /\ TrIdle /\ DqIdle

\* None of the later components has been started.
LateIdle == RnIdle /\ AnIdle /\ RtIdle /\ DbIdle /\ ScIdle /\ PpIdle

InitSentiment == SentInit /\ ThemesIdle /\ KwIdle /\ PlIdle /\ TrIdle /\ DqIdle /\ LateIdle

SpecSentiment == InitSentiment /\ [][SentNext]_vars

InitThemes == ThemesInit /\ SentIdle /\ KwIdle /\ PlIdle /\ TrIdle /\ DqIdle /\ LateIdle

SpecThemes == InitThemes /\ [][ThemesNext]_vars

InitKeywords == KwInit /\ SentIdle /\ ThemesIdle /\ PlIdle /\ TrIdle /\ DqIdle /\ LateIdle

SpecKeywords == InitKeywords /\ [][KwNext]_vars

InitTranslate == TrInit /\ SentIdle /\ ThemesIdle /\ KwIdle /\ PlIdle /\ DqIdle /\ LateIdle

SpecTranslate == InitTranslate /\ [][TrNext]_vars

InitDataQuality == DqInit /\ SentIdle /\ ThemesIdle /\ KwIdle /\ PlIdle /\ LateIdle

SpecDataQuality == InitDataQuality /\ [][DqNext]_vars

InitAnalyzer == AnInit /\ EarlyIdle /\ RnIdle /\ RtIdle /\ DbIdle /\ ScIdle /\ PpIdle

SpecAnalyzer == InitAnalyzer /\ [][AnNext]_vars

InitCells == RtInit /\ EarlyIdle /\ RnIdle /\ AnIdle /\ DbIdle /\ ScIdle /\ PpIdle

SpecCells == InitCells /\ [][RtNext]_vars

InitSeed == DbInit /\ EarlyIdle /\ RnIdle /\ AnIdle /\ RtIdle /\ ScIdle /\ PpIdle

SpecSeed == InitSeed /\ [][DbNext]_vars

InitScraper == ScInit /\ EarlyIdle /\ RnIdle /\ AnIdle /\ RtIdle /\ DbIdle /\ PpIdle

SpecScraper == InitScraper /\ [][ScNext]_vars

\* fetch_reviews keeps running as long as it has a step to take.
SpecScraperFair == InitScraper /\ [][ScNext]_vars /\ WF_vars(ScNext)

InitClean == PpInit /\ EarlyIdle /\ RnIdle /\ AnIdle /\ RtIdle /\ DbIdle /\ ScIdle

SpecClean == InitClean /\ [][PpNext]_vars

InitAnalyzerStored ==
    AnInitStored /\ EarlyIdle /\ RnIdle /\ RtIdle /\ DbIdle /\ ScIdle /\ PpIdle

SpecAnalyzerStored == InitAnalyzerStored /\ [][AnNext]_vars

InitRename == RnInit /\ EarlyIdle /\ AnIdle /\ RtIdle /\ DbIdle /\ ScIdle /\ PpIdle

SpecRename == InitRename /\ [][RnNext]_vars

\* run_pipeline, the program's entry point, after the import of the model.
Init == PlInit /\ SentInit /\ ThemesIdle /\ KwIdle /\ TrIdle /\ DqIdle /\ LateIdle

Next == PlNext

Spec == Init /\ [][Next]_vars

=============================================================================
